---- MODULE Spec2Model ----
(***************************************************************************)
(* A model of the img4laser image pipeline (js/modules/imageProcessor.js,  *)
(* js/modules/algorithms.js, js/modules/materials.js, js/main.js).         *)
(*                                                                         *)
(* The module holds several specifications over one set of variables; each *)
(* specification drives one part of the program and leaves the records of  *)
(* the other parts at their idle value:                                    *)
(*   SpecInvert    ImageAlgorithms.invertColors applied repeatedly         *)
(*   SpecLevels    ImageProcessor.applyLevels applied to one image         *)
(*   SpecClassify  ImageProcessor.detectImageType, called twice in a row   *)
(*   SpecProcess   ImageProcessor.processImage, one call                   *)
(*   SpecOps       the image operations, one call each (dithering twice)   *)
(*   SpecHistogram calculateHistogram and the pipeline on any pixel buffer *)
(*   SpecUI        the page script: loading an image, a processing attempt *)
(*   SpecAnchor    the automatic anchor gray of processImage               *)
(*   SpecScene     detectImageType on uniform and checkerboard images      *)
(*   SpecPeaks     the anchor gray computed from calculateImageStats       *)
(*   SpecPage      the page script with its requests, buttons and pixels   *)
(*                                                                         *)
(* JavaScript is single threaded: an action is the code that runs between  *)
(* two awaits.                                                             *)
(***************************************************************************)
EXTENDS Integers, Sequences, FiniteSets, TLC

VARIABLES
    inv,    \* SpecInvert: the image handed to invertColors and the current result
    lv,     \* SpecLevels: the image and arguments of applyLevels and its result
    det,    \* one activation of detectImageType (async function)
    env,    \* the host: the global faceapi object and the state of its promises
    pi,     \* one activation of processImage (async function)
    op,     \* one image operation applied to one image, and what it returned
    ui      \* the state variables of the page script (main.js)

vars == <<inv, lv, det, env, pi, op, ui>>

(***************************************************************************)
(* Bytes and pixel buffers                                                 *)
(***************************************************************************)

\* The largest value of a colour channel (8 bit).
MaxByte == 255

\* A store into a Uint8ClampedArray clamps an integer to 0..255.
Clamp8(v) == IF v < 0 THEN 0 ELSE IF v > MaxByte THEN MaxByte ELSE v

\* Math.max(0, Math.min(255, v))
clamp0_255(v) == IF v < 0 THEN 0 ELSE IF v > MaxByte THEN MaxByte ELSE v

\* Math.round(num / den) for den > 0: the nearest integer, halves rounded up.
RoundDiv(num, den) == (2 * num + den) \div (2 * den)

\* All sequences over S of a length in lens.
SeqsOfLen(S, lens) == UNION {[1..n -> S] : n \in lens}

\* The concatenation of a sequence of sequences.
RECURSIVE Flatten(_)
Flatten(ss) == IF ss = <<>> THEN <<>> ELSE Head(ss) \o Flatten(Tail(ss))

(***************************************************************************)
(* ImageAlgorithms.invertColors                                            *)
(***************************************************************************)

\* A pixel buffer is the flat RGBA byte sequence of ImageData.data, indexed
\* from 1 here: byte k belongs to channel (k-1) % 4 of pixel (k-1) \div 4.
ChannelOf(k) == (k - 1) % 4
RedIndexOf(k) == k - ChannelOf(k)

\* A slip of invertColors: the gray is taken from 256, not 255.
invertColorsFrom256(data) ==
    [k \in 1..Len(data) |->
        IF ChannelOf(k) < 3 THEN Clamp8(256 - data[RedIndexOf(k)]) ELSE data[k]]

\* invertColors: a copy of the buffer in which R, G and B of every pixel are
\* 255 minus the pixel's R channel; the alpha bytes are copied.
invertColors(data) ==
    [k \in 1..Len(data) |->
        IF ChannelOf(k) < 3 THEN Clamp8(MaxByte - data[RedIndexOf(k)]) ELSE data[k]]

\* Bounds of SpecInvert.
MaxInvPixels == 2
MaxInvert == 2

ByteSamples == {0, 100, 255}
AlphaSamples == {0, 255}
InvPixels == {<<r, g, b, a>> : r \in ByteSamples, g \in ByteSamples,
                               b \in ByteSamples, a \in AlphaSamples}
InvImages == {Flatten(ps) : ps \in SeqsOfLen(InvPixels, 1..MaxInvPixels)}

InvIdle == [img |-> <<>>, cur |-> <<>>, count |-> 0]
LvIdle == [img |-> <<>>, out |-> <<>>, args |-> <<>>, done |-> FALSE]
\* det: pc        "idle", "load" (awaiting loadFromUri), "detect" (awaiting
\*                detectAllFaces) or "done" (the promise of the call is settled)
\*      call      the number of calls started
\*      feat      the features of the image the calls are given
\*      rule      the cartoon rule that fired in this call (0: none)
\*      path      the index of the model path being loaded
\*      consulted whether this call invoked a method of faceapi
\*      outcome   what the face detector did in this call
\*      result    the value the call resolved with
\*      thrown    the error the call rejected with
\*      first     outcome and result of the call before this one
\* env: faceapi   whether the global faceapi is defined
\*      params    whether faceapi.nets.tinyFaceDetector.params is set
\*      settles   whether the promise now awaited will ever settle
NoFeatures == [peakCount |-> 0]
DetIdle ==
    [pc |-> "idle", call |-> 0, feat |-> NoFeatures, rule |-> 0, path |-> 0,
     consulted |-> FALSE, outcome |-> "none", result |-> "none", thrown |-> "none",
     first |-> [outcome |-> "none", result |-> "none"]]
EnvIdle == [faceapi |-> FALSE, params |-> FALSE, settles |-> TRUE]
\* pi: pc        "idle", "awaitType" (awaiting detectImageType), "resolved" or
\*                "rejected" (the promise of processImage is settled)
\*      in        materialId, variant and the overrides of the call
\*      stats     mean and median of the gray image (stdDev is det.feat.stdDev)
\*      imageType the type the rest of processImage works with
\*      called    the operations of Materials called so far
\*      error     the error processImage rejected with
\*      out       the record processImage resolved with
NoAnchor == [defined |-> FALSE, value |-> 0]
NoInput ==
    [materialId |-> "none", variant |-> "none", knownImageType |-> "undefined",
     anchorGray |-> NoAnchor]
NoStats == [mean |-> 0, median |-> 0]
NoOutput ==
    [fields |-> {}, anchorGray |-> 0, anchorGraySource |-> "none",
     detectedImageType |-> "none", wasInverted |-> FALSE]
\* op: fn     the function that was applied ("none" before the call)
\*     img    the image the caller holds: width, height and the RGBA bytes
\*     args   the arguments of the call
\*     out    the bytes of the image the last call returned
\*     calls  the number of calls made
\*     first  the input and the output of the first call
\*     thrown what the last call threw ("none" when it returned)
NoImage == [width |-> 0, height |-> 0, data |-> <<>>]
OpIdle ==
    [fn |-> "none", img |-> NoImage, args |-> <<>>, out |-> <<>>, calls |-> 0,
     first |-> <<>>, thrown |-> "none"]
\* ui: the variables of the page script (main.js). An image is named by a
\*     number from 1 (0 is null); a processing result by the image it was made
\*     of and the function that made it.
\*     before         the stored artifacts when the running attempt began
\*     outcome        how the last attempt ended
\*     uploadedSince  an image was loaded while the attempt was awaited
NoResult == [of |-> 0, by |-> "none"]
NoArtifacts ==
    [originalImageData |-> 0, lastProcessingResult |-> NoResult,
     baseProcessedImageData |-> NoResult, processedImageData |-> NoResult]
UiIdle ==
    [pc |-> "idle", originalImageData |-> 0, lastProcessingResult |-> NoResult,
     baseProcessedImageData |-> NoResult, processedImageData |-> NoResult,
     isCurrentlyInverted |-> FALSE, currentImageFaceDetectionRan |-> FALSE,
     currentImageDetectedType |-> "null", before |-> NoArtifacts,
     outcome |-> "none", uploadedSince |-> FALSE, attempts |-> 0]
PiIdle ==
    [pc |-> "idle", in |-> NoInput, stats |-> NoStats, imageType |-> "none",
     called |-> {}, error |-> "none", out |-> NoOutput]

InitInvert ==
    /\ inv \in {[img |-> d, cur |-> d, count |-> 0] : d \in InvImages}
    /\ lv = LvIdle
    /\ det = DetIdle
    /\ env = EnvIdle
    /\ pi = PiIdle
    /\ op = OpIdle
    /\ ui = UiIdle

\* One call of invertColors on the current image.
InvertColors ==
    /\ inv.count < MaxInvert
    /\ inv' = [inv EXCEPT !.cur = invertColors(inv.cur), !.count = @ + 1]
    /\ UNCHANGED <<lv, det, env, pi, op, ui>>

NextInvert == InvertColors

SpecInvert == InitInvert /\ [][NextInvert]_vars

\* Every pixel of the buffer has R = G = B.
IsGrayData(data) ==
    \A k \in 1..Len(data) : ChannelOf(k) < 3 => data[k] = data[RedIndexOf(k)]

\* C1 as stated: for every RGBA image, also one whose channels differ, two
\* inversions give back every byte of the image.
C1_InvertTwiceIsIdentity ==
    inv.count = 2 => inv.cur = inv.img

\* C1 as the code has it: two inversions restore every byte of an image whose
\* pixels have R = G = B; of any image they keep the length, the alpha bytes
\* and the R channel, and leave G and B equal to the original R.
C1_InvertTwiceOnGray ==
    inv.count = 2 =>
        /\ Len(inv.cur) = Len(inv.img)
        /\ IsGrayData(inv.img) => inv.cur = inv.img
        /\ \A k \in 1..Len(inv.img) :
              inv.cur[k] = IF ChannelOf(k) = 3 THEN inv.img[k]
                           ELSE inv.img[RedIndexOf(k)]

C1_Witness ==
    /\ inv.count = 2
    /\ Len(inv.img) = 8
    /\ IsGrayData(inv.img)
    /\ inv.img[1] = 0 /\ inv.img[5] = 100
    /\ inv.img[4] # inv.img[8]
    /\ inv.cur = inv.img

(***************************************************************************)
(* ImageProcessor.applyLevels and calculateAdaptiveInLow                   *)
(***************************************************************************)

\* applyLevels reads one pixel at a time and the histogram of the whole image,
\* and the adaptive black point needs at least 200 pixels to differ from 0.
\* SpecLevels therefore holds an image as a sequence of runs: run
\* [px |-> <<r, g, b, a>>, n |-> c] stands for c consecutive pixels r, g, b, a of
\* ImageData.data.

ImageTypes == {"photo", "cartoon", "portrait"}

\* The histogram applyLevels builds counts, in bin i, the pixels whose R channel
\* is i. BinsSum is the sum of its bins 0..hi (of i * histogram[i] when
\* weighted), taken run by run.
RECURSIVE BinsSum(_, _, _)
BinsSum(img, hi, weighted) ==
    IF img = <<>> THEN 0
    ELSE (IF Head(img).px[1] <= hi
          THEN (IF weighted THEN Head(img).px[1] * Head(img).n ELSE Head(img).n)
          ELSE 0) + BinsSum(Tail(img), hi, weighted)

\* histogram.reduce((sum, count) => sum + count, 0)
HistTotal(img) == BinsSum(img, MaxByte, FALSE)

\* Math.floor(totalPixels * 0.005) is totalPixels \div 200.
DarkFractionDen == 200
\* The darkest pixels count as dark enough below this average gray.
DarkEnoughGray == 30

\* The least bin in lo..hi up to which the pixels counted from bin 0 reach the
\* target (the counts are cumulative, so the bin is found by bisection).
RECURSIVE FirstBinReaching(_, _, _, _)
FirstBinReaching(img, target, lo, hi) ==
    IF lo >= hi THEN lo
    ELSE LET mid == (lo + hi) \div 2
         IN  IF BinsSum(img, mid, FALSE) >= target
             THEN FirstBinReaching(img, target, lo, mid)
             ELSE FirstBinReaching(img, target, mid + 1, hi)

\* The loop of calculateAdaptiveInLow, for (i = 0; i < 256 && darkPixelCount <
\* targetDarkPixels; i++): it does not run for a target of 0, and otherwise ends
\* after the first bin at which the pixels counted reach the target.
DarkScan(img, target) ==
    IF target <= 0 THEN [weightedSum |-> 0, count |-> 0]
    ELSE LET last == FirstBinReaching(img, target, 0, MaxByte)
         IN  [weightedSum |-> BinsSum(img, last, TRUE),
              count |-> BinsSum(img, last, FALSE)]

\* calculateAdaptiveInLow(histogram, imageType), the histogram being that of img.
calculateAdaptiveInLow(img, imageType) ==
    IF imageType # "cartoon" THEN 0
    ELSE LET targetDarkPixels == HistTotal(img) \div DarkFractionDen
             s == DarkScan(img, targetDarkPixels)
             avgDarkGray == IF s.count > 0 THEN RoundDiv(s.weightedSum, s.count) ELSE 0
         IN  IF avgDarkGray < DarkEnoughGray THEN 0 ELSE avgDarkGray

\* Math.max(inLow, adaptiveInLow)
LevelsFinalInLow(img, inLow, imageType) ==
    LET adaptiveInLow == calculateAdaptiveInLow(img, imageType)
    IN  IF inLow >= adaptiveInLow THEN inLow ELSE adaptiveInLow

\* A slip of the range test: an empty input range is let through.
LevelsRejectsOnlyNegative(inRange, outRange) == inRange < 0 \/ outRange < 0

\* if (inRange <= 0 || outRange < 0) return imageData
LevelsRejects(inRange, outRange) == inRange <= 0 \/ outRange < 0

\* A slip of the mapping: the white branch yields the output black point.
levelsGrayWhiteToLow(gray, finalInLow, inHigh, outLow, outHigh) ==
    clamp0_255(IF gray <= finalInLow THEN outLow
               ELSE IF gray >= inHigh THEN outLow
               ELSE RoundDiv(outLow * (inHigh - finalInLow)
                             + (gray - finalInLow) * (outHigh - outLow),
                             inHigh - finalInLow))

\* The gray applyLevels writes for one pixel. The code computes
\* outLow + ((gray - finalInLow) / inRange) * outRange in floating point and
\* rounds; here the quotient is exact, which can differ from the code by one
\* only where the exact value is a half.
levelsGray(gray, finalInLow, inHigh, outLow, outHigh) ==
    clamp0_255(IF gray <= finalInLow THEN outLow
               ELSE IF gray >= inHigh THEN outHigh
               ELSE RoundDiv(outLow * (inHigh - finalInLow)
                             + (gray - finalInLow) * (outHigh - outLow),
                             inHigh - finalInLow))

\* applyLevels once finalInLow is known: the range test and the pixel loop.
applyLevelsFrom(img, finalInLow, inHigh, outLow, outHigh) ==
    IF LevelsRejects(inHigh - finalInLow, outHigh - outLow)
    THEN img
    ELSE [k \in 1..Len(img) |->
            LET gray == levelsGray(img[k].px[1], finalInLow, inHigh, outLow, outHigh)
            IN  [px |-> <<gray, gray, gray, img[k].px[4]>>, n |-> img[k].n]]

\* applyLevels(imageData, inLow, inHigh, outLow, outHigh, imageType = 'photo')
applyLevels(img, inLow, inHigh, outLow, outHigh, imageTypeArg) ==
    LET imageType == IF imageTypeArg = "undefined" THEN "photo" ELSE imageTypeArg
        finalInLow == LevelsFinalInLow(img, inLow, imageType)
    IN  applyLevelsFrom(img, finalInLow, inHigh, outLow, outHigh)

\* Bound of SpecLevels: the number of runs of an image.
MaxRuns == 2

LvGraySamples == {0, 40, 100}
LvPixels == {<<g, g, g, 255>> : g \in LvGraySamples} \cup {<<120, 60, 30, 128>>}
LvRunLengths == {1, 399}
LvRuns == [px : LvPixels, n : LvRunLengths]
LvImages == SeqsOfLen(LvRuns, 1..MaxRuns)

LvInLows == {0, 50, 100}
LvInHighs == {50, 100, 255}
LvOutLows == {-10, 60}
LvOutHighs == {0, 255}
LvArgs == [inLow : LvInLows, inHigh : LvInHighs, outLow : LvOutLows,
           outHigh : LvOutHighs, imageType : ImageTypes \cup {"undefined"}]

InitLevels ==
    /\ lv \in {[img |-> i, out |-> <<>>, args |-> <<>>, done |-> FALSE] : i \in LvImages}
    /\ inv = InvIdle
    /\ det = DetIdle
    /\ env = EnvIdle
    /\ pi = PiIdle
    /\ op = OpIdle
    /\ ui = UiIdle

\* One call of applyLevels.
ApplyLevels ==
    /\ ~lv.done
    /\ \E a \in LvArgs :
          lv' = [lv EXCEPT !.args = a, !.done = TRUE,
                           !.out = applyLevels(lv.img, a.inLow, a.inHigh,
                                               a.outLow, a.outHigh, a.imageType)]
    /\ UNCHANGED <<inv, det, env, pi, op, ui>>

NextLevels == ApplyLevels

SpecLevels == InitLevels /\ [][NextLevels]_vars

\* C9: applyLevels returns the input image, no pixel changed, whenever
\* inHigh <= inLow or outHigh < outLow, for every image type.
C9_InvalidRangeIsNoOp ==
    (lv.done /\ (lv.args.inHigh <= lv.args.inLow \/ lv.args.outHigh < lv.args.outLow))
        => lv.out = lv.img

C9_Witness ==
    /\ lv.done
    /\ lv.args.inHigh = lv.args.inLow
    /\ lv.args.outLow <= lv.args.outHigh
    /\ lv.args.imageType = "cartoon"
    /\ Len(lv.img) = 2
    /\ lv.img[1].px[1] < lv.args.inLow /\ lv.img[2].px[1] > lv.args.inLow
    /\ lv.img[2].px[2] # lv.img[2].px[1]
    /\ lv.out = lv.img

LvEffectiveType == IF lv.args.imageType = "undefined" THEN "photo" ELSE lv.args.imageType

\* C10: for inLow < inHigh and outLow <= outHigh and any image type, the gray
\* mapping applyLevels applies to one image is monotonic non-decreasing: over
\* the pixels of the image (input gray a <= b gives output gray of a <= that of
\* b) and over the whole range of gray values 0..255 (the mapping is the
\* identity when the call returns its input).
C10_LevelsMonotonic ==
    (lv.done /\ lv.args.inLow < lv.args.inHigh /\ lv.args.outLow <= lv.args.outHigh) =>
        /\ \A i, j \in 1..Len(lv.img) :
              (lv.img[i].px[1] = lv.img[i].px[2] /\ lv.img[j].px[1] = lv.img[j].px[2]
               /\ lv.img[i].px[1] <= lv.img[j].px[1])
                  => lv.out[i].px[1] <= lv.out[j].px[1]
        /\ LET finalInLow == LevelsFinalInLow(lv.img, lv.args.inLow, LvEffectiveType)
           IN  \/ LevelsRejects(lv.args.inHigh - finalInLow,
                                lv.args.outHigh - lv.args.outLow)
               \/ \A a \in 0..(MaxByte - 1) :
                     levelsGray(a, finalInLow, lv.args.inHigh,
                                lv.args.outLow, lv.args.outHigh)
                       <= levelsGray(a + 1, finalInLow, lv.args.inHigh,
                                     lv.args.outLow, lv.args.outHigh)

C10_Witness ==
    /\ lv.done
    /\ lv.args.imageType = "cartoon"
    /\ lv.args.inLow = 0 /\ lv.args.inHigh = 255
    /\ lv.args.outLow = -10 /\ lv.args.outHigh = 255
    /\ LevelsFinalInLow(lv.img, lv.args.inLow, "cartoon") = 40
    /\ Len(lv.img) = 2
    /\ lv.img[1].px[1] = 40 /\ lv.img[2].px[1] = 100
    /\ lv.out[1].px[1] = 0 /\ lv.out[2].px[1] > 0 /\ lv.out[2].px[1] < 100

\* The average gray, rounded, of the count darkest pixels of img (0 for none):
\* the whole bins below the one at which the count is reached, and of that bin
\* only the pixels still missing.
DarkestAverage(img, count) ==
    IF count <= 0 THEN 0
    ELSE LET last == FirstBinReaching(img, count, 0, MaxByte)
             below == BinsSum(img, last - 1, FALSE)
         IN  RoundDiv(BinsSum(img, last - 1, TRUE) + last * (count - below), count)

\* The black point of the statement for the call held in lv.
LvStatedInLow ==
    IF LvEffectiveType # "cartoon" THEN lv.args.inLow
    ELSE LET avg == DarkestAverage(lv.img, HistTotal(lv.img) \div DarkFractionDen)
             A == IF avg >= DarkEnoughGray THEN avg ELSE 0
         IN  IF lv.args.inLow >= A THEN lv.args.inLow ELSE A

\* C22 as stated: applyLevels maps the image with the supplied inLow as black
\* point for every type other than cartoon, and for cartoon with the larger of
\* inLow and A, A being the average gray of the darkest 0.5% of the pixels
\* when that average is at least 30 and 0 otherwise.
C22_BlackPointAsStated ==
    lv.done => lv.out = applyLevelsFrom(lv.img, LvStatedInLow, lv.args.inHigh,
                                        lv.args.outLow, lv.args.outHigh)

\* The part of C22 about the other types: the supplied inLow is the black point
\* whatever the histogram and the type.
C22_OtherTypesUseInLow ==
    (lv.done /\ lv.args.imageType # "cartoon") =>
        lv.out = applyLevelsFrom(lv.img, lv.args.inLow, lv.args.inHigh,
                                 lv.args.outLow, lv.args.outHigh)

(***************************************************************************)
(* ImageProcessor.detectImageType                                          *)
(***************************************************************************)

\* The features detectImageType reads. Ratios are held in thousandths (0.8 is
\* 800); peakCount, colorBlockCount, edgeContrast and stdDev in their own unit.
\* The samples take one value from each side of every threshold of the rules.
PeakCountSamples == {0, 1, 3, 4, 5, 6}
BwRatioSamples == {1, 10, 500, 700, 800, 900}
LowVarianceSamples == {700, 750, 800, 850, 920, 950, 1000}
ColorSimplicitySamples == {700, 800, 900}
LongEdgeSamples == {150, 200}
ColorBlockSamples == {5, 10}
DistinctEdgeSamples == {40, 50}
EdgeContrastSamples == {50, 60}
SkinToneSamples == {300, 400}
StdDevSamples == {40, 50}

FeatureSamples ==
    [peakCount : PeakCountSamples, bwRatio : BwRatioSamples,
     lowVarianceAreaRatio : LowVarianceSamples,
     colorSimplicity : ColorSimplicitySamples, longEdgeRatio : LongEdgeSamples,
     colorBlockCount : ColorBlockSamples, distinctEdgeRatio : DistinctEdgeSamples,
     edgeContrast : EdgeContrastSamples, skinToneRatio : SkinToneSamples,
     stdDev : StdDevSamples]

\* A slip of rule 1: a histogram without a peak does not pass it.
CartoonRuleNeedsPeak(f) ==
    IF f.peakCount <= 3 /\ f.peakCount > 0 /\ f.bwRatio > 800 THEN 1
    ELSE IF \/ f.lowVarianceAreaRatio > 950
            \/ (f.lowVarianceAreaRatio > 920 /\ f.bwRatio > 1) THEN 2
    ELSE IF f.bwRatio > 700 THEN 3
    ELSE IF f.bwRatio > 500 /\ f.lowVarianceAreaRatio > 700 THEN 3
    ELSE IF /\ f.longEdgeRatio > 150 /\ f.colorBlockCount < 10
            /\ f.colorSimplicity > 700
            /\ f.lowVarianceAreaRatio > 800 THEN 4
    ELSE IF /\ f.colorSimplicity > 850 /\ f.lowVarianceAreaRatio > 750
            /\ f.peakCount <= 4 THEN 5
    ELSE IF /\ f.lowVarianceAreaRatio > 850 /\ f.bwRatio > 10
            /\ f.distinctEdgeRatio > 40 /\ f.edgeContrast > 50
            /\ ~(f.peakCount = 1 /\ f.stdDev < 50)
            /\ ~(f.peakCount > 5)
            /\ ~(f.skinToneRatio > 300) THEN 6
    ELSE 0

\* The cartoon rules of detectImageType in the order of the code: the number
\* of the first rule that returns 'cartoon', 0 when none does.
CartoonRule(f) ==
    IF (f.peakCount <= 3 \/ f.peakCount = 0) /\ f.bwRatio > 800 THEN 1
    ELSE IF \/ f.lowVarianceAreaRatio > 950
            \/ (f.lowVarianceAreaRatio > 920 /\ f.bwRatio > 1) THEN 2
    ELSE IF f.bwRatio > 700 THEN 3
    ELSE IF f.bwRatio > 500 /\ f.lowVarianceAreaRatio > 700 THEN 3
    ELSE IF /\ f.longEdgeRatio > 150 /\ f.colorBlockCount < 10
            /\ f.colorSimplicity > 700
            /\ f.lowVarianceAreaRatio > 800 THEN 4
    ELSE IF /\ f.colorSimplicity > 850 /\ f.lowVarianceAreaRatio > 750
            /\ f.peakCount <= 4 THEN 5
    ELSE IF /\ f.lowVarianceAreaRatio > 850 /\ f.bwRatio > 10
            /\ f.distinctEdgeRatio > 40 /\ f.edgeContrast > 50
            /\ ~(f.peakCount = 1 /\ f.stdDev < 50)
            /\ ~(f.peakCount > 5)
            /\ ~(f.skinToneRatio > 300) THEN 6
    ELSE 0

\* possiblePaths.length: the paths the model is loaded from, in turn.
NumModelPaths == 4

\* Bounds of SpecClassify: the faces a detection reports, the calls in a row.
MaxFaces == 1
MaxCalls == 2

\* A slip of the end of detectImageType: no default return after the face test.
FaceVerdictNoDefault(faces) == IF faces > 0 THEN "portrait" ELSE "undefined"

\* if (detections && detections.length > 0) return 'portrait'; ... return 'photo'
FaceVerdict(faces) == IF faces > 0 THEN "portrait" ELSE "photo"

\* A slip of the catch block: the error is thrown on to the caller.
DetectCatchRethrows(error) == [result |-> "none", thrown |-> error]

\* catch (error) { console.error(...) } followed by return 'photo'
DetectCatch(error) == [result |-> "photo", thrown |-> "none"]

\* The call returns v.
DetectReturn(d, v, outcome) ==
    [d EXCEPT !.pc = "done", !.result = v, !.outcome = outcome]

\* An error reaches the catch block of the call.
DetectCaught(d, error, outcome) ==
    LET c == DetectCatch(error)
    IN  [d EXCEPT !.pc = "done", !.result = c.result, !.thrown = c.thrown,
                  !.outcome = outcome]

\* A slip of detectImageType: the face detector is started before the cartoon
\* rules are looked at.
DetectEnterFaceFirst(d, e, s) ==
    LET rule == CartoonRule(d.feat)
        base == [d EXCEPT !.call = @ + 1, !.rule = rule, !.path = 0,
                          !.consulted = FALSE, !.outcome = "none",
                          !.result = "none", !.thrown = "none",
                          !.first = [outcome |-> d.outcome, result |-> d.result]]
    IN  IF ~e.faceapi
        THEN [det |-> DetectCaught(base, "face-api not loaded", "notLoaded"), env |-> e]
        ELSE IF ~e.params
        THEN [det |-> [base EXCEPT !.pc = "load", !.path = 1, !.consulted = TRUE],
              env |-> [e EXCEPT !.settles = s]]
        ELSE [det |-> [base EXCEPT !.pc = "detect", !.consulted = TRUE],
              env |-> [e EXCEPT !.settles = s]]

\* detectImageType from its entry to its first await or its return: the
\* features, the cartoon rules, the test of the global faceapi and of the
\* loaded model. s is whether the promise it then awaits will settle.
DetectEnter(d, e, s) ==
    LET rule == CartoonRule(d.feat)
        base == [d EXCEPT !.call = @ + 1, !.rule = rule, !.path = 0,
                          !.consulted = FALSE, !.outcome = "none",
                          !.result = "none", !.thrown = "none",
                          !.first = [outcome |-> d.outcome, result |-> d.result]]
    IN  IF rule > 0
        THEN [det |-> DetectReturn(base, "cartoon", "notConsulted"), env |-> e]
        ELSE IF ~e.faceapi
        THEN [det |-> DetectCaught(base, "face-api not loaded", "notLoaded"), env |-> e]
        ELSE IF ~e.params
        THEN [det |-> [base EXCEPT !.pc = "load", !.path = 1, !.consulted = TRUE],
              env |-> [e EXCEPT !.settles = s]]
        ELSE [det |-> [base EXCEPT !.pc = "detect", !.consulted = TRUE],
              env |-> [e EXCEPT !.settles = s]]

InitClassify ==
    /\ det \in {[DetIdle EXCEPT !.feat = f] : f \in FeatureSamples}
    /\ env \in {e \in [faceapi : BOOLEAN, params : BOOLEAN, settles : {TRUE}] :
                   e.params => e.faceapi}
    /\ inv = InvIdle
    /\ lv = LvIdle
    /\ pi = PiIdle
    /\ op = OpIdle
    /\ ui = UiIdle

\* A caller invokes detectImageType(imageData); a second call is made on the
\* same image when the first has completed.
CallDetect ==
    /\ det.pc = "idle" \/ (det.pc = "done" /\ det.call < MaxCalls)
    /\ \E s \in BOOLEAN :
          LET n == DetectEnter(det, env, s)
          IN  det' = n.det /\ env' = n.env
    /\ UNCHANGED <<inv, lv, pi, op, ui>>

\* The promise of faceapi.nets.tinyFaceDetector.loadFromUri(path) settles.
LoadSettle ==
    /\ det.pc = "load"
    /\ env.settles
    /\ \E ok \in BOOLEAN, s \in BOOLEAN :
          IF ok
          THEN /\ det' = [det EXCEPT !.pc = "detect"]
               /\ env' = [env EXCEPT !.params = TRUE, !.settles = s]
          ELSE IF det.path < NumModelPaths
          THEN /\ det' = [det EXCEPT !.path = @ + 1]
               /\ env' = [env EXCEPT !.settles = s]
          ELSE /\ det' = DetectCaught(det, "Failed to load face detection models",
                                      "loadFailed")
               /\ env' = env
    /\ UNCHANGED <<inv, lv, pi, op, ui>>

\* The promise of faceapi.detectAllFaces(canvas, options) settles.
DetectSettle ==
    /\ det.pc = "detect"
    /\ env.settles
    /\ \/ det' = DetectCaught(det, "detectAllFaces failed", "detectThrew")
       \/ \E faces \in 0..MaxFaces :
             det' = DetectReturn(det, FaceVerdict(faces),
                                 IF faces > 0 THEN "faces" ELSE "noFaces")
    /\ UNCHANGED <<env, inv, lv, pi, op, ui>>

\* The resumptions of a suspended call that the code has.
DetectContinues == LoadSettle \/ DetectSettle

NextClassify == CallDetect \/ LoadSettle \/ DetectSettle

SpecClassify == InitClassify /\ [][NextClassify]_vars

\* C2: detectImageType is total and deterministic. A completed call has
\* resolved with exactly one of 'photo', 'cartoon', 'portrait' and has not
\* rejected, whatever the features and whatever the detector did (not loaded,
\* load failed on every path, detection threw, no face, some face); a call
\* suspended on a promise that settles can go on; and a second call on the same
\* features in which the detector did the same gives the same result.
C2_DetectTotalDeterministic ==
    /\ det.pc = "done" =>
          /\ det.result \in ImageTypes
          /\ det.thrown = "none"
          /\ det.outcome \in {"notConsulted", "notLoaded", "loadFailed",
                              "detectThrew", "noFaces", "faces"}
          /\ (det.call >= 2 /\ det.outcome = det.first.outcome)
                => det.result = det.first.result
    /\ (det.pc \in {"load", "detect"} /\ env.settles) => ENABLED DetectContinues

\* A second call on a photo-like image has found a face, as the first did.
C2_Witness ==
    /\ det.pc = "done"
    /\ det.call = 2
    /\ det.rule = 0
    /\ det.outcome = "faces"
    /\ det.first.outcome = "faces"
    /\ det.result = "portrait"
    /\ det.first.result = "portrait"

\* C4: every call of detectImageType eventually completes, even when the
\* promise of the model load or of detectAllFaces never settles: a call that
\* is suspended on the detector can always go on (by a timeout if by nothing
\* else) and fall through to 'photo'.
C4_SuspendedCallCanGoOn ==
    det.pc \in {"load", "detect"} => ENABLED DetectContinues

MaterialsExports ==
    {"getAllMaterials", "getMaterialParams", "adjustParamsForImageStats",
     "defaultParams"}

\* Materials.defaultParams.anchorGray
DefaultAnchorGray == 128

\* The fallback of line 1028 when the default anchor is falsy.
FallbackAnchorGray == 128

\* A slip of WeightedAnchor: median + mean is taken where their mean is meant.
WeightedAnchorOfSum(stats, pct, lo) ==
    LET r == RoundDiv((stats.median + stats.mean) * pct, 100)
    IN  IF r < lo THEN lo ELSE r

\* Math.max(lo, Math.round(weightedValue * pct / 100)) with
\* weightedValue = median * 0.5 + mean * 0.5
WeightedAnchor(stats, pct, lo) ==
    LET r == RoundDiv((stats.median + stats.mean) * pct, 200)
    IN  IF r < lo THEN lo ELSE r

\* sortedPeaks[k].position: an entry of imageStats.peaks is a bin index
\* (analyzeHistogram pushes i), and the position of a number is undefined; an
\* entry that is an object gives its position.
PeakPosition(peak) ==
    IF peak \in 0..MaxByte THEN [defined |-> FALSE, value |-> 0]
    ELSE [defined |-> TRUE, value |-> peak.position]

\* peaks of imageStats (none when the record has no such field).
PeaksOf(stats) == IF "peaks" \in DOMAIN stats THEN stats.peaks ELSE <<>>

\* baseResult of the cartoon branch: with two peaks or more the difference of
\* the first two positions is compared with 50; a difference of undefined
\* positions is NaN, and NaN > 50 is false.
cartoonBaseResult(stats) ==
    LET peaks == PeaksOf(stats)
        p0 == PeakPosition(peaks[1])
        p1 == PeakPosition(peaks[2])
    IN  IF Len(peaks) >= 2
        THEN (IF p0.defined /\ p1.defined /\ p1.value - p0.value > 50
              THEN (IF RoundDiv(p0.value + p1.value, 2) > 100 THEN 100
                    ELSE RoundDiv(p0.value + p1.value, 2))
              ELSE WeightedAnchor(stats, 62, 65))
        ELSE WeightedAnchor(stats, 62, 65)

\* calculateOptimalAnchorGray(imageStats, imageType); stdDev is the standard
\* deviation of imageStats.
calculateOptimalAnchorGray(stats, stdDev, imageType) ==
    IF imageType = "portrait" THEN WeightedAnchor(stats, 60, 65)
    ELSE IF imageType = "cartoon"
    THEN RoundDiv(cartoonBaseResult(stats) * 35, 100)
    ELSE IF stdDev < 40 THEN WeightedAnchor(stats, 66, 72)
    ELSE IF stdDev > 60 THEN WeightedAnchor(stats, 69, 75)
    ELSE WeightedAnchor(stats, 72, 77)

\* The metal (+10%) and dark (+5%) adjustment of an automatic anchor.
AdjustAutoAnchor(base, isMetal, variant) ==
    LET pct == 100 + (IF isMetal THEN 10 ELSE 0) + (IF variant = "dark" THEN 5 ELSE 0)
    IN  IF pct > 100 THEN clamp0_255(RoundDiv(base * pct, 100)) ELSE base

\* The anchor of step 6 of processImage and where it came from.
ProcessAnchor(in, stats, stdDev, imageType, isMetal) ==
    IF ~in.anchorGray.defined
    THEN [value |-> AdjustAutoAnchor(
                        calculateOptimalAnchorGray(stats, stdDev, imageType),
                        isMetal, in.variant),
          source |-> "auto_calculated"]
    ELSE IF in.anchorGray.value >= 0 /\ in.anchorGray.value <= 255
    THEN [value |-> in.anchorGray.value, source |-> "user_override"]
    ELSE [value |-> IF DefaultAnchorGray # 0 THEN DefaultAnchorGray
                    ELSE FallbackAnchorGray,
          source |-> "invalid_override_fallback"]

\* The keys of the record processImage returns.
ProcessResultFields ==
    {"originalImage", "grayImage", "processedImage", "wasInverted",
     "imageStats", "params", "info", "analysis"}

\* processImage from the point where imageType is known (line 938) to its
\* end: the calls of Materials in the order of the code, of which a call of an
\* operation that Materials does not export throws a TypeError out of
\* processImage; then the anchor, the adjustments and the returned record.
\* materialInfo has no isMetal that the materials table would set.
ProcessFromType(p, stdDev, imageType) ==
    LET calls == <<"getMaterialParams", "adjustParamsForImageStats",
                   "getMaterialInfo">>
        missing == {k \in 1..Len(calls) : calls[k] \notin MaterialsExports}
        firstMissing == CHOOSE k \in missing : \A j \in missing : k <= j
        anchor == ProcessAnchor(p.in, p.stats, stdDev, imageType, FALSE)
    IN  IF missing # {}
        THEN [p EXCEPT !.pc = "rejected", !.imageType = imageType,
                       !.called = {calls[k] : k \in 1..firstMissing},
                       !.error = "TypeError: not a function"]
        ELSE [p EXCEPT !.pc = "resolved", !.imageType = imageType,
                       !.called = {calls[k] : k \in 1..Len(calls)},
                       !.out = [fields |-> ProcessResultFields,
                                anchorGray |-> anchor.value,
                                anchorGraySource |-> anchor.source,
                                detectedImageType |-> imageType,
                                wasInverted |-> (p.in.variant = "dark")]]

\* The inputs of SpecProcess.
ProcessFeatures ==
    {f \in FeatureSamples :
        /\ f.bwRatio \in {10, 900}
        /\ f.lowVarianceAreaRatio \in {700, 1000}
        /\ f.peakCount \in {1, 6}
        /\ f.colorSimplicity = 800 /\ f.longEdgeRatio = 200
        /\ f.colorBlockCount = 5 /\ f.distinctEdgeRatio = 50
        /\ f.edgeContrast = 60 /\ f.skinToneRatio = 300}
StatsSamples == [mean : {60, 200}, median : {130}]
AnchorOverrides ==
    {NoAnchor} \cup {[defined |-> TRUE, value |-> v] : v \in {-5, 0, 100, 255, 300}}
ProcessInputs ==
    [materialId : {"stainless_steel", "walnut", "unobtainium"},
     variant : {"dark", "neutral"},
     knownImageType : ImageTypes \cup {"undefined"},
     anchorGray : AnchorOverrides]

InitProcess ==
    /\ pi \in {[PiIdle EXCEPT !.in = i, !.stats = st] :
                  i \in ProcessInputs, st \in StatsSamples}
    /\ det \in {[DetIdle EXCEPT !.feat = f] : f \in ProcessFeatures}
    /\ env \in {e \in [faceapi : BOOLEAN, params : BOOLEAN, settles : {TRUE}] :
                   e.params => e.faceapi}
    /\ inv = InvIdle
    /\ lv = LvIdle
    /\ op = OpIdle
    /\ ui = UiIdle

\* A caller invokes processImage: up to the await of detectImageType, or,
\* with a known image type, to the end.
ProcessStart ==
    /\ pi.pc = "idle"
    /\ IF pi.in.knownImageType # "undefined"
       THEN /\ pi' = ProcessFromType(pi, det.feat.stdDev, pi.in.knownImageType)
            /\ UNCHANGED <<det, env>>
       ELSE \E s \in BOOLEAN :
               LET n == DetectEnter(det, env, s)
               IN  /\ det' = n.det
                   /\ env' = n.env
                   /\ pi' = [pi EXCEPT !.pc = "awaitType"]
    /\ UNCHANGED <<inv, lv, op, ui>>

\* detectImageType has completed and processImage goes on from its await.
ProcessResume ==
    /\ pi.pc = "awaitType"
    /\ det.pc = "done"
    /\ pi' = IF det.thrown # "none"
             THEN [pi EXCEPT !.pc = "rejected", !.error = det.thrown]
             ELSE ProcessFromType(pi, det.feat.stdDev, det.result)
    /\ UNCHANGED <<det, env, inv, lv, op, ui>>

NextProcess == ProcessStart \/ LoadSettle \/ DetectSettle \/ ProcessResume

SpecProcess == InitProcess /\ [][NextProcess]_vars

\* The promise of processImage is settled.
ProcessCompleted == pi.pc \in {"resolved", "rejected"}

\* The errors a face detector that is missing or failing raises in
\* detectImageType.
DetectorErrors ==
    {"face-api not loaded", "Failed to load face detection models",
     "detectAllFaces failed"}

\* C3: when no cartoon rule fires and the face detector is not loaded, its
\* model cannot be loaded from any path, or detection throws, detectImageType
\* resolves to 'photo' and does not reject, and processImage, when it
\* completes, has worked with 'photo' and has not rejected with an error of
\* the detector.
C3_DetectorFailureGivesPhoto ==
    (/\ det.pc = "done"
     /\ det.rule = 0
     /\ det.outcome \in {"notLoaded", "loadFailed", "detectThrew"})
        => /\ det.result = "photo"
           /\ det.thrown = "none"
           /\ pi.error \notin DetectorErrors
           /\ ProcessCompleted => pi.imageType = "photo"

\* processImage has completed after the model failed to load from each of
\* the four paths.
C3_Witness ==
    /\ ProcessCompleted
    /\ det.pc = "done"
    /\ det.rule = 0
    /\ det.outcome = "loadFailed"
    /\ det.path = NumModelPaths
    /\ det.result = "photo"
    /\ pi.imageType = "photo"

\* C5: for every image, materialId, variant and overrides, a completed
\* processImage has resolved with a record holding processedImage, grayImage,
\* imageStats, params, analysis and wasInverted, it has not rejected, and
\* every operation of Materials it called is one that Materials exports.
C5_ProcessResolves ==
    /\ ProcessCompleted =>
          /\ pi.pc = "resolved"
          /\ {"processedImage", "grayImage", "imageStats", "params", "analysis",
              "wasInverted"} \subseteq pi.out.fields
    /\ pi.called \subseteq MaterialsExports

\* C6: with overrides.knownImageType supplied, a completed processImage has
\* called neither the rule cascade nor the face detector, and the params it
\* returned carry the supplied type as detectedImageType.
C6_KnownTypeSkipsClassification ==
    (pi.in.knownImageType # "undefined" /\ ProcessCompleted)
        => /\ det.call = 0
           /\ ~det.consulted
           /\ pi.pc = "resolved"
           /\ pi.out.detectedImageType = pi.in.knownImageType

\* C7: with overrides.anchorGray a number in 0..255, a completed processImage
\* has returned exactly that value as params.anchorGray, taken from the
\* override and not from calculateOptimalAnchorGray or a post-adjustment.
C7_AnchorOverrideIsUsed ==
    (/\ pi.in.anchorGray.defined
     /\ pi.in.anchorGray.value \in 0..MaxByte
     /\ ProcessCompleted)
        => /\ pi.pc = "resolved"
           /\ pi.out.anchorGray = pi.in.anchorGray.value
           /\ pi.out.anchorGraySource = "user_override"

\* C8: with overrides.anchorGray outside 0..255, a completed processImage has
\* not rejected and has returned the override clamped to the nearest bound
\* (0 below 0, 255 above 255) as params.anchorGray.
C8_AnchorOverrideIsClamped ==
    (/\ pi.in.anchorGray.defined
     /\ pi.in.anchorGray.value \notin 0..MaxByte
     /\ ProcessCompleted)
        => /\ pi.pc = "resolved"
           /\ pi.out.anchorGray = clamp0_255(pi.in.anchorGray.value)

(***************************************************************************)
(* The image operations of ImageProcessor and ImageAlgorithms on one image *)
(***************************************************************************)

\* The gray that applyBrightnessContrast gives one pixel. brightness is in
\* -100..100 and is scaled by 2.55; contrast is held in hundredths.
\* gray = (gray + brightness * 2.55 - anchorGray) * contrast + anchorGray,
\* rounded and limited to 0..255.
brightnessContrastGray(gray, brightness, contrast100, anchorGray) ==
    clamp0_255(RoundDiv((100 * gray + 255 * brightness - 100 * anchorGray)
                            * contrast100 + 10000 * anchorGray,
                        10000))

\* A slip of applyBrightnessContrast: the alpha of every pixel is made opaque.
applyBrightnessContrastOpaque(data, brightness, contrast100, anchorGray) ==
    [k \in 1..Len(data) |->
        IF ChannelOf(k) < 3
        THEN Clamp8(brightnessContrastGray(data[RedIndexOf(k)], brightness,
                                           contrast100, anchorGray))
        ELSE MaxByte]

\* applyBrightnessContrast: the copy of the bytes, in which R, G and B of each
\* pixel become the adjusted R and alpha stays.
applyBrightnessContrast(data, brightness, contrast100, anchorGray) ==
    [k \in 1..Len(data) |->
        IF ChannelOf(k) < 3
        THEN Clamp8(brightnessContrastGray(data[RedIndexOf(k)], brightness,
                                           contrast100, anchorGray))
        ELSE data[k]]

\* The byte of channel c of the pixel in column x and row y (both from 0).
ByteAt(img, x, y, c) == img.data[(y * img.width + x) * 4 + c + 1]

\* The store of the number num / den into a Uint8ClampedArray: limited to
\* 0..255 and rounded to the nearest integer, a half to the even one.
RoundHalfEven(num, den) ==
    LET q == num \div den
        r == num % den
    IN  IF 2 * r < den THEN q
        ELSE IF 2 * r > den THEN q + 1
        ELSE IF q % 2 = 0 THEN q ELSE q + 1
StoreClamped(num, den) ==
    IF num <= 0 THEN 0
    ELSE IF num >= MaxByte * den THEN MaxByte
    ELSE RoundHalfEven(num, den)

\* The sum of the 3 by 3 convolution of applySharpening at an inner pixel, in
\* thousandths: the kernel is 1 + 8 * factor at the centre and -factor around
\* it, factor = amount / 100, and amount is held in tenths.
sharpenSum(img, x, y, c, amount10) ==
    LET centre == ByteAt(img, x, y, c)
        around == ByteAt(img, x - 1, y - 1, c) + ByteAt(img, x, y - 1, c)
                    + ByteAt(img, x + 1, y - 1, c) + ByteAt(img, x - 1, y, c)
                    + ByteAt(img, x + 1, y, c) + ByteAt(img, x - 1, y + 1, c)
                    + ByteAt(img, x, y + 1, c) + ByteAt(img, x + 1, y + 1, c)
    IN  1000 * centre + amount10 * (8 * centre - around)

\* A slip of sharpenedByte: the sum is stored as it is, neither limited by
\* Math.min / Math.max nor by a clamping array.
sharpenedByteUnclamped(img, x, y, c, amount10) ==
    RoundHalfEven(sharpenSum(img, x, y, c, amount10), 1000)

\* temp[...] = Math.min(255, Math.max(0, sum))
sharpenedByte(img, x, y, c, amount10) ==
    StoreClamped(sharpenSum(img, x, y, c, amount10), 1000)

\* applySharpening: the image itself for an amount of 0 or less; otherwise the
\* inner pixels convolved on R, G and B, and the border pixels and every alpha
\* copied.
applySharpening(img, amount10) ==
    IF amount10 <= 0 THEN img.data
    ELSE [k \in 1..Len(img.data) |->
            LET p == (k - 1) \div 4
                x == p % img.width
                y == p \div img.width
            IN  IF /\ ChannelOf(k) < 3
                   /\ x >= 1 /\ x <= img.width - 2
                   /\ y >= 1 /\ y <= img.height - 2
                THEN sharpenedByte(img, x, y, ChannelOf(k), amount10)
                ELSE img.data[k]]

RECURSIVE Power(_, _)
Power(b, n) == IF n = 0 THEN 1 ELSE b * Power(b, n - 1)

\* The error diffusion of the three diffusing algorithms: the quantisation
\* error is first divided by pre and floored (Atkinson: Math.floor(e / 8)),
\* then each tap adds error * w / div to the pixel dx to the right and dy below.
DiffusionKernel(ditherType) ==
    IF ditherType = "atkinson"
    THEN [pre |-> 8, div |-> 1,
          taps |-> {<<1, 0, 1>>, <<2, 0, 1>>, <<-1, 1, 1>>, <<0, 1, 1>>,
                    <<1, 1, 1>>, <<0, 2, 1>>}]
    ELSE IF ditherType = "jarvis"
    THEN [pre |-> 1, div |-> 48,
          taps |-> {<<1, 0, 7>>, <<2, 0, 5>>,
                    <<-2, 1, 3>>, <<-1, 1, 5>>, <<0, 1, 7>>, <<1, 1, 5>>, <<2, 1, 3>>,
                    <<-2, 2, 1>>, <<-1, 2, 3>>, <<0, 2, 5>>, <<1, 2, 3>>, <<2, 2, 1>>}]
    ELSE [pre |-> 1, div |-> 16,
          taps |-> {<<1, 0, 7>>, <<-1, 1, 3>>, <<0, 1, 5>>, <<1, 1, 1>>}]

\* The weight with which the error of pixel (x, y) reaches pixel j of a w by h
\* image (0 when no tap leads there).
TapWeight(kernel, w, h, x, y, j) ==
    LET hits == {t \in kernel.taps :
                    /\ x + t[1] >= 0 /\ x + t[1] < w /\ y + t[2] < h
                    /\ (y + t[2]) * w + (x + t[1]) = j}
    IN  IF hits = {} THEN 0 ELSE (CHOOSE t \in hits : TRUE)[3]

\* The scan of grayArray from pixel idx on. The grays are held as multiples
\* of 1 / scale, scale being a power of the divisor that keeps every diffused
\* share exact.
RECURSIVE DiffuseFrom(_, _, _, _, _, _, _)
DiffuseFrom(g, idx, w, h, threshold, kernel, scale) ==
    IF idx >= w * h THEN g
    ELSE LET oldPixel == g[idx]
             newPixel == IF oldPixel < threshold * scale THEN 0 ELSE MaxByte * scale
             quantError == (oldPixel - newPixel) \div kernel.pre
             next == [j \in 0..(w * h - 1) |->
                        IF j = idx THEN newPixel
                        ELSE g[j] + (quantError \div kernel.div)
                                      * TapWeight(kernel, w, h, idx % w, idx \div w, j)]
         IN  DiffuseFrom(next, idx + 1, w, h, threshold, kernel, scale)

\* applyFloydSteinbergDithering, applyJarvisDithering and
\* applyAtkinsonDithering: the grays are the R bytes, the scan diffuses the
\* errors, and each gray is rounded, limited and written to R, G and B.
applyDiffusionDithering(img, threshold, ditherType) ==
    LET kernel == DiffusionKernel(ditherType)
        n == img.width * img.height
        scale == IF kernel.div = 1 THEN 1 ELSE Power(kernel.div, n - 1)
        grayArray == [i \in 0..(n - 1) |-> img.data[i * 4 + 1] * scale]
        dithered == DiffuseFrom(grayArray, 0, img.width, img.height, threshold,
                                kernel, scale)
    IN  [k \in 1..Len(img.data) |->
            IF ChannelOf(k) < 3
            THEN Clamp8(clamp0_255(RoundDiv(dithered[(k - 1) \div 4], scale)))
            ELSE img.data[k]]

\* The 8 by 8 Bayer matrix of applyOrderedDithering and applyBayerDithering.
bayerMatrix ==
    << << 0, 32,  8, 40,  2, 34, 10, 42>>,
       <<48, 16, 56, 24, 50, 18, 58, 26>>,
       <<12, 44,  4, 36, 14, 46,  6, 38>>,
       <<60, 28, 52, 20, 62, 30, 54, 22>>,
       << 3, 35, 11, 43,  1, 33,  9, 41>>,
       <<51, 19, 59, 27, 49, 17, 57, 25>>,
       <<15, 47,  7, 39, 13, 45,  5, 37>>,
       <<63, 31, 55, 23, 61, 29, 53, 21>> >>
BayerAt(x, y) == bayerMatrix[(y % 8) + 1][(x % 8) + 1]

\* applyOrderedDithering: white where gray > (matrix / 64) * 255.
applyOrderedDithering(img) ==
    [k \in 1..Len(img.data) |->
        LET p == (k - 1) \div 4
        IN  IF ChannelOf(k) < 3
            THEN Clamp8(IF 64 * img.data[RedIndexOf(k)]
                             > MaxByte * BayerAt(p % img.width, p \div img.width)
                        THEN MaxByte ELSE 0)
            ELSE img.data[k]]

\* The value applyBayerDithering gives a gray with matrix entry b:
\* quantizedValue = gray / 255 + (b / 64 - 0.5) / levels, limited to 0..0.999,
\* level = floor(quantizedValue * levels), value = round(level * 255 / (levels - 1)).
bayerValue(gray, b, levelsArg) ==
    LET levels == IF levelsArg < 2 THEN 2 ELSE IF levelsArg > 6 THEN 6 ELSE levelsArg
        qn == 64 * levels * gray + MaxByte * (b - 32)
        qd == MaxByte * 64 * levels
        level == IF qn <= 0 THEN 0
                 ELSE IF 1000 * qn >= 999 * qd THEN (999 * levels) \div 1000
                 ELSE (qn * levels) \div qd
    IN  RoundDiv(level * MaxByte, levels - 1)

\* A slip of applyBayerDithering: three levels are used whatever the caller
\* passes, so that a middle gray is written.
applyBayerDitheringThreeLevels(img, levels) ==
    [k \in 1..Len(img.data) |->
        LET p == (k - 1) \div 4
        IN  IF ChannelOf(k) < 3
            THEN Clamp8(bayerValue(img.data[RedIndexOf(k)],
                                   BayerAt(p % img.width, p \div img.width), 3))
            ELSE img.data[k]]

\* applyBayerDithering(imageData, levels)
applyBayerDithering(img, levels) ==
    [k \in 1..Len(img.data) |->
        LET p == (k - 1) \div 4
        IN  IF ChannelOf(k) < 3
            THEN Clamp8(bayerValue(img.data[RedIndexOf(k)],
                                   BayerAt(p % img.width, p \div img.width), levels))
            ELSE img.data[k]]

\* applyDithering(imageData, params)
applyDithering(img, params) ==
    IF ~params.ditherEnabled THEN img.data
    ELSE IF params.ditherType = "ordered" THEN applyOrderedDithering(img)
    ELSE IF params.ditherType = "bayer" THEN applyBayerDithering(img, 2)
    ELSE IF params.ditherType \in {"atkinson", "jarvis"}
    THEN applyDiffusionDithering(img, params.ditherThreshold, params.ditherType)
    ELSE applyDiffusionDithering(img, params.ditherThreshold, "floydSteinberg")

\* A slip of the dithering functions: they work in the caller's array.
callerBytesAfterInPlace(data, result) == result

\* The bytes of the caller's image after a call that returned result: every
\* operation works on new Uint8ClampedArray(imageData.data) and leaves the
\* caller's array alone.
callerBytesAfter(data, result) == data

\* The images of SpecOps: every image of at most MaxSmallPixels pixels drawn
\* from OpPixels, and 3 by 3 images with a centre, edge pixels and corner
\* pixels.
MaxSmallPixels == 4
OpPixels == {<<0, 0, 0, 255>>, <<100, 100, 100, 0>>, <<255, 60, 30, 128>>}
SmallSizes ==
    {wh \in (1..MaxSmallPixels) \X (1..MaxSmallPixels) :
        wh[1] * wh[2] <= MaxSmallPixels}
SmallImages ==
    UNION {{[width |-> wh[1], height |-> wh[2], data |-> Flatten(ps)] :
              ps \in [1..(wh[1] * wh[2]) -> OpPixels]} : wh \in SmallSizes}
CrossImage(centre, edge, corner) ==
    [width |-> 3, height |-> 3,
     data |-> Flatten(<<corner, edge, corner, edge, centre, edge,
                        corner, edge, corner>>)]
CrossImages ==
    {CrossImage(c, e, k) : c \in OpPixels, e \in OpPixels, k \in OpPixels}
OpImages == SmallImages \cup CrossImages

BrightnessSamples == {-100, 0, 37, 100}
ContrastSamples == {10, 100, 120, 300}
AnchorSamples == {0, 128, 255}

InitOps ==
    /\ op \in {[OpIdle EXCEPT !.img = i] : i \in OpImages}
    /\ inv = InvIdle
    /\ lv = LvIdle
    /\ det = DetIdle
    /\ env = EnvIdle
    /\ pi = PiIdle
    /\ ui = UiIdle

\* One call applyBrightnessContrast(img, brightness, contrast, anchorGray).
ApplyBrightnessContrast ==
    /\ op.fn = "none"
    /\ \E b \in BrightnessSamples, c \in ContrastSamples, a \in AnchorSamples :
          op' = [op EXCEPT
                    !.fn = "applyBrightnessContrast",
                    !.args = [brightness |-> b, contrast100 |-> c, anchorGray |-> a],
                    !.out = applyBrightnessContrast(op.img.data, b, c, a),
                    !.calls = 1]
    /\ UNCHANGED <<inv, lv, det, env, pi, ui>>

\* The bytes convertToGrayscale computes: gray = Math.round(0.299 R + 0.587 G
\* + 0.114 B) in R, G and B, alpha kept. Where the buffer ends inside a pixel
\* the missing channels read as undefined, the gray is NaN and is stored as 0.
convertToGrayscale(data) ==
    [k \in 1..Len(data) |->
        IF ChannelOf(k) = 3 THEN data[k]
        ELSE IF RedIndexOf(k) + 2 > Len(data) THEN 0
        ELSE Clamp8(RoundDiv(299 * data[RedIndexOf(k)] + 587 * data[RedIndexOf(k) + 1]
                               + 114 * data[RedIndexOf(k) + 2], 1000))]

\* applyLevels on the bytes of an image: one run per pixel.
RunsOfData(data) ==
    [p \in 1..(Len(data) \div 4) |->
        [px |-> <<data[4 * p - 3], data[4 * p - 2], data[4 * p - 1], data[4 * p]>>,
         n |-> 1]]
DataOfRuns(runs) == Flatten([p \in 1..Len(runs) |-> runs[p].px])
applyLevelsData(data, a) ==
    DataOfRuns(applyLevels(RunsOfData(data), a.inLow, a.inHigh, a.outLow, a.outHigh,
                           a.imageType))

\* The amounts of sharpening, in tenths (the interface passes 0.5 by default).
SharpnessSamples == {0, 5, 100, 1000}

\* The scale div^n of the diffused grays stays below 2^21, so that every
\* scaled gray is an integer TLC can hold (acc is the power reached so far).
RECURSIVE ScaleFits(_, _, _)
ScaleFits(div, n, acc) ==
    IF acc > 2097152 THEN FALSE
    ELSE IF n <= 0 THEN TRUE
    ELSE ScaleFits(div, n - 1, acc * div)

\* The dither settings tried on an image. The algorithms that diffuse sixteenths
\* or forty-eighths are run on the images whose scaled grays fit.
DitherTypes == {"floydSteinberg", "atkinson", "jarvis", "ordered", "bayer", "stucki"}
DitherThresholds == {-1, 0, 100, 128, 255, 300}
DitherArgs(img) ==
    {a \in [ditherEnabled : BOOLEAN, ditherType : DitherTypes,
            ditherThreshold : DitherThresholds] :
        /\ a.ditherType \notin {"ordered", "bayer"}
              => ScaleFits(DiffusionKernel(a.ditherType).div,
                           img.width * img.height - 1, 1)
        /\ ~a.ditherEnabled
              => a.ditherType = "floydSteinberg" /\ a.ditherThreshold = 128}

\* Bound of SpecOps: the calls of applyDithering made on one image.
MaxDitherCalls == 2

\* One call applySharpening(img, amount).
ApplySharpening ==
    /\ op.fn = "none"
    /\ \E s \in SharpnessSamples :
          op' = [op EXCEPT !.fn = "applySharpening",
                           !.args = [sharpness10 |-> s],
                           !.out = applySharpening(op.img, s),
                           !.calls = 1]
    /\ UNCHANGED <<inv, lv, det, env, pi, ui>>

\* One call invertColors(img).
ApplyInvert ==
    /\ op.fn = "none"
    /\ op' = [op EXCEPT !.fn = "invertColors",
                        !.out = invertColors(op.img.data),
                        !.calls = 1]
    /\ UNCHANGED <<inv, lv, det, env, pi, ui>>

\* One call applyLevels(img, inLow, inHigh, outLow, outHigh, imageType).
ApplyLevelsOp ==
    /\ op.fn = "none"
    /\ \E a \in LvArgs :
          op' = [op EXCEPT !.fn = "applyLevels",
                           !.args = a,
                           !.out = applyLevelsData(op.img.data, a),
                           !.calls = 1]
    /\ UNCHANGED <<inv, lv, det, env, pi, ui>>

\* A call applyDithering(img, params): the first one with any settings, a
\* later one on the image the caller still holds, with the same settings.
ApplyDithering ==
    /\ op.fn \in {"none", "applyDithering"}
    /\ op.calls < MaxDitherCalls
    /\ \E a \in DitherArgs(op.img) :
          /\ op.fn = "applyDithering" => a = op.args
          /\ LET result == applyDithering(op.img, a)
             IN  op' = [op EXCEPT
                          !.fn = "applyDithering",
                          !.args = a,
                          !.out = result,
                          !.calls = @ + 1,
                          !.img.data = callerBytesAfter(@, result),
                          !.first = IF op.calls = 0
                                    THEN [input |-> op.img.data, out |-> result]
                                    ELSE @]
    /\ UNCHANGED <<inv, lv, det, env, pi, ui>>

\* The parameters of processImageWithCustomParams tried on an image.
CustomParams(img) ==
    {q \in [brightness : {0, 100}, contrast100 : {120, 300}, anchorGray : {128},
            sharpness10 : {0, 5, 1000},
            levels : {[inLow |-> 0, inHigh |-> 255, outLow |-> 0, outHigh |-> 255,
                       imageType |-> "undefined"],
                      [inLow |-> 50, inHigh |-> 200, outLow |-> -20, outHigh |-> 300,
                       imageType |-> "cartoon"]},
            dither : [ditherEnabled : BOOLEAN,
                      ditherType : {"floydSteinberg", "atkinson", "jarvis", "bayer"},
                      ditherThreshold : {128}]] :
        q.dither \in DitherArgs(img)}

\* processImageWithCustomParams(imageData, params): grayscale, brightness and
\* contrast, levels, sharpening when sharpness > 0, dithering when enabled.
processImageWithCustomParams(img, q) ==
    LET grayImage == convertToGrayscale(img.data)
        adjusted == applyBrightnessContrast(grayImage, q.brightness, q.contrast100,
                                            q.anchorGray)
        levelled == applyLevelsData(adjusted, q.levels)
        sharpened == IF q.sharpness10 > 0
                     THEN applySharpening([img EXCEPT !.data = levelled], q.sharpness10)
                     ELSE levelled
    IN  IF q.dither.ditherEnabled
        THEN applyDithering([img EXCEPT !.data = sharpened], q.dither)
        ELSE sharpened

\* One call processImageWithCustomParams(img, params).
ProcessCustom ==
    /\ op.fn = "none"
    /\ \E q \in CustomParams(op.img) :
          op' = [op EXCEPT !.fn = "processImageWithCustomParams",
                           !.args = q,
                           !.out = processImageWithCustomParams(op.img, q),
                           !.calls = 1]
    /\ UNCHANGED <<inv, lv, det, env, pi, ui>>

NextOps ==
    \/ ApplyBrightnessContrast
    \/ ApplyLevelsOp
    \/ ApplySharpening
    \/ ApplyDithering
    \/ ApplyInvert
    \/ ProcessCustom

SpecOps == InitOps /\ [][NextOps]_vars

\* The call was applyBrightnessContrast(img, 0, 1.0, 128).
NeutralAdjustment ==
    /\ op.fn = "applyBrightnessContrast"
    /\ op.args = [brightness |-> 0, contrast100 |-> 100, anchorGray |-> 128]

\* C11 as stated: applyBrightnessContrast(img, 0, 1.0, 128) returns the bytes
\* of img, on all four channels, for every RGBA image.
C11_NeutralAdjustmentIsIdentity == NeutralAdjustment => op.out = op.img.data

\* C11: applyBrightnessContrast(img, 0, 1.0, 128) returns the bytes of img for
\* every image whose pixels have R = G = B; for any image it keeps alpha and
\* the R channel and writes the pixel's R into G and B.
C11_NeutralAdjustmentOnGray ==
    NeutralAdjustment =>
        /\ Len(op.out) = Len(op.img.data)
        /\ IsGrayData(op.img.data) => op.out = op.img.data
        /\ \A k \in 1..Len(op.out) :
              op.out[k] = IF ChannelOf(k) = 3 THEN op.img.data[k]
                          ELSE op.img.data[RedIndexOf(k)]

\* The neutral adjustment has returned a 2 by 2 gray image with a transparent
\* pixel unchanged.
C11_Witness ==
    /\ NeutralAdjustment
    /\ op.img.width = 2
    /\ op.img.height = 2
    /\ IsGrayData(op.img.data)
    /\ op.img.data[1] = 100
    /\ op.img.data[8] = 0
    /\ op.out = op.img.data

PixelOperations ==
    {"applyBrightnessContrast", "applyLevels", "applySharpening", "applyDithering",
     "invertColors", "processImageWithCustomParams"}

\* C14: every R, G, B and alpha byte of the image returned by
\* applyBrightnessContrast, applyLevels, applySharpening, applyDithering,
\* invertColors and processImageWithCustomParams lies in 0..255, and the image
\* has the size of the input.
C14_OutputBytesInRange ==
    op.fn \in PixelOperations =>
        /\ Len(op.out) = 4 * op.img.width * op.img.height
        /\ \A k \in 1..Len(op.out) : op.out[k] \in 0..MaxByte

\* Sharpening by 100 has met an inner pixel whose convolution sum leaves
\* 0..255 (a white centre among black neighbours) and has stored 255.
C14_Witness ==
    /\ op.fn = "applySharpening"
    /\ op.args.sharpness10 = 1000
    /\ op.img.width = 3
    /\ op.img.height = 3
    /\ op.img.data[17] = 255
    /\ op.img.data[1] = 0
    /\ sharpenSum(op.img, 1, 1, 0, 1000) > 255000
    /\ op.out[17] = 255

\* C29: applyDithering with ditherEnabled true, for floydSteinberg, atkinson,
\* jarvis, ordered, bayer and an unknown type and every threshold, returns an
\* image in which R, G and B of every pixel are equal and are 0 or 255, and
\* the alpha of every pixel is that of the input pixel; with ditherEnabled false
\* it returns the input image.
C29_DitheredPixelsAreBlackOrWhite ==
    (op.fn = "applyDithering" /\ op.calls = 1) =>
        IF op.args.ditherEnabled
        THEN /\ Len(op.out) = Len(op.first.input)
             /\ \A k \in 1..Len(op.out) :
                   IF ChannelOf(k) < 3
                   THEN op.out[k] \in {0, MaxByte} /\ op.out[k] = op.out[RedIndexOf(k)]
                   ELSE op.out[k] = op.first.input[k]
        ELSE op.out = op.first.input

\* Bayer dithering has run on an image whose first pixel is the transparent
\* gray 100 and whose second pixel is a colour pixel, and has made both black
\* or white with their alpha kept.
C29_Witness ==
    /\ op.fn = "applyDithering"
    /\ op.calls = 1
    /\ op.args.ditherEnabled
    /\ op.args.ditherType = "bayer"
    /\ Len(op.first.input) >= 8
    /\ op.first.input[1] = 100 /\ op.first.input[4] = 0
    /\ op.first.input[5] = 255 /\ op.first.input[6] = 60
    /\ op.out[1] \in {0, MaxByte} /\ op.out[4] = 0
    /\ op.out[6] = op.out[5] /\ op.out[8] = op.first.input[8]

(***************************************************************************)
(* Histograms and pixel buffers of any length                              *)
(***************************************************************************)

\* A slip of calculateHistogram: the loop steps by one byte, not by one pixel.
calculateHistogramOfBytes(data) ==
    [v \in 0..MaxByte |-> Cardinality({i \in 1..Len(data) : data[i] = v})]

\* calculateHistogram: for (i = 0; i < data.length; i += 4) histogram[data[i]]++
calculateHistogram(data) ==
    LET starts == {i \in 1..Len(data) : (i - 1) % 4 = 0}
        present == {data[i] : i \in starts}
    IN  [v \in 0..MaxByte |->
            IF v \in present THEN Cardinality({i \in starts : data[i] = v}) ELSE 0]

\* The sum of the bins lo..hi of a histogram.
RECURSIVE SumOfBins(_, _, _)
SumOfBins(histogram, lo, hi) ==
    IF lo > hi THEN 0
    ELSE IF lo = hi THEN histogram[lo]
    ELSE SumOfBins(histogram, lo, (lo + hi) \div 2)
            + SumOfBins(histogram, (lo + hi) \div 2 + 1, hi)

\* The buffer holds exactly width * height pixels of four bytes.
WellFormed(img) ==
    /\ img.width * img.height >= 1
    /\ Len(img.data) = img.width * img.height * 4

\* new ImageData(data, width, height) of the host: it throws a DOMException
\* unless the length is a positive multiple of 4 that makes height rows of
\* width pixels.
ImageDataAccepts(len, width, height) ==
    /\ len > 0
    /\ len % 4 = 0
    /\ (len \div 4) % width = 0
    /\ (len \div 4) \div width = height

\* The outcome of convertToGrayscale(imageData): the loop runs over the
\* buffer as it is, then the ImageData is constructed.
GrayscaleOutcome(img) ==
    IF ImageDataAccepts(Len(img.data), img.width, img.height)
    THEN [thrown |-> "none", out |-> convertToGrayscale(img.data)]
    ELSE [thrown |-> "DOMException", out |-> <<>>]

\* Bound of SpecHistogram: the bytes of a buffer.
MaxBufferLen == 8
BufferBytes == {7, 255}
BufferSizes ==
    {wh \in (1..MaxBufferLen) \X (1..MaxBufferLen) : wh[1] * wh[2] * 4 <= MaxBufferLen}
Buffers ==
    UNION {{[width |-> wh[1], height |-> wh[2], data |-> d] :
               d \in UNION {[1..n -> BufferBytes] : n \in 0..MaxBufferLen}} :
           wh \in BufferSizes}

\* The parameters processImageWithCustomParams fills in by default.
DefaultCustomParams ==
    [brightness |-> 0, contrast100 |-> 120, anchorGray |-> 128, sharpness10 |-> 5,
     levels |-> [inLow |-> 0, inHigh |-> 255, outLow |-> 0, outHigh |-> 255,
                 imageType |-> "undefined"],
     dither |-> [ditherEnabled |-> FALSE, ditherType |-> "floydSteinberg",
                 ditherThreshold |-> 128]]

InitHistogram ==
    /\ op \in {[OpIdle EXCEPT !.img = b] : b \in Buffers}
    /\ inv = InvIdle
    /\ lv = LvIdle
    /\ det = DetIdle
    /\ env = EnvIdle
    /\ pi = PiIdle
    /\ ui = UiIdle

\* One call calculateHistogram(imageData).
CalculateHistogram ==
    /\ op.fn = "none"
    /\ op' = [op EXCEPT !.fn = "calculateHistogram",
                        !.out = calculateHistogram(op.img.data),
                        !.calls = 1]
    /\ UNCHANGED <<inv, lv, det, env, pi, ui>>

\* One call convertToGrayscale(imageData).
ConvertToGrayscale ==
    /\ op.fn = "none"
    /\ op' = [op EXCEPT !.fn = "convertToGrayscale",
                        !.out = GrayscaleOutcome(op.img).out,
                        !.thrown = GrayscaleOutcome(op.img).thrown,
                        !.calls = 1]
    /\ UNCHANGED <<inv, lv, det, env, pi, ui>>

\* One call processImageWithCustomParams(imageData, {}): what its first step,
\* convertToGrayscale, throws is thrown again by the catch block.
ProcessCustomBuffer ==
    /\ op.fn = "none"
    /\ op' = [op EXCEPT
                !.fn = "processImageWithCustomParams",
                !.args = DefaultCustomParams,
                !.thrown = GrayscaleOutcome(op.img).thrown,
                !.out = IF GrayscaleOutcome(op.img).thrown = "none"
                        THEN processImageWithCustomParams(op.img, DefaultCustomParams)
                        ELSE <<>>,
                !.calls = 1]
    /\ UNCHANGED <<inv, lv, det, env, pi, ui>>

\* One call processImage(imageData, material, variant, laser, {knownImageType}):
\* its first step is convertToGrayscale; with the type known it then runs to
\* its end without a pause.
ProcessImageBuffer ==
    /\ op.fn = "none"
    /\ \E t \in ImageTypes :
          LET p == ProcessFromType(
                       [PiIdle EXCEPT !.in.knownImageType = t,
                                      !.in.materialId = "walnut",
                                      !.in.variant = "neutral"], 0, t)
          IN  op' = [op EXCEPT
                       !.fn = "processImage",
                       !.args = [knownImageType |-> t],
                       !.thrown = IF GrayscaleOutcome(op.img).thrown # "none"
                                  THEN GrayscaleOutcome(op.img).thrown
                                  ELSE p.error,
                       !.calls = 1]
    /\ UNCHANGED <<inv, lv, det, env, pi, ui>>

NextHistogram ==
    \/ CalculateHistogram
    \/ ConvertToGrayscale
    \/ ProcessCustomBuffer
    \/ ProcessImageBuffer

SpecHistogram == InitHistogram /\ [][NextHistogram]_vars

\* C15: for every image of width * height >= 1 pixels whose buffer has
\* width * height * 4 bytes, the 256 bins calculateHistogram returns sum to
\* width * height.
C15_HistogramSumsToPixelCount ==
    (op.fn = "calculateHistogram" /\ WellFormed(op.img)) =>
        SumOfBins(op.out, 0, MaxByte) = op.img.width * op.img.height

\* The histogram of a well-formed 2 by 1 image with the grays 7 and 255 has
\* been taken: one pixel in each of the two bins.
C15_Witness ==
    /\ op.fn = "calculateHistogram"
    /\ WellFormed(op.img)
    /\ op.img.width = 2
    /\ op.img.data[1] = 7
    /\ op.img.data[5] = 255
    /\ op.out[7] = 1
    /\ op.out[255] = 1

\* C16 as stated: a call of convertToGrayscale, calculateHistogram,
\* processImage or processImageWithCustomParams on an image whose buffer
\* length is not a multiple of 4 or differs from width * height * 4 fails
\* with InvalidImageData.
C16_MalformedBufferIsRejected ==
    (op.fn # "none" /\ ~WellFormed(op.img)) => op.thrown = "InvalidImageData"

(***************************************************************************)
(* The page script: loading an image and the processing attempt            *)
(***************************************************************************)

\* Bounds of SpecUI: the images a user can load and the clicks on "process".
NumUiImages == 2
MaxAttempts == 3

\* ImageProcessor.processImage as the page calls it rejects exactly when
\* processImage reaches a call it cannot make.
UiProcessImage(imageType) ==
    ProcessFromType([PiIdle EXCEPT !.in.materialId = "walnut",
                                   !.in.variant = "neutral"], 0, imageType)

\* The artifacts the page keeps.
Artifacts(u) ==
    [originalImageData |-> u.originalImageData,
     lastProcessingResult |-> u.lastProcessingResult,
     baseProcessedImageData |-> u.baseProcessedImageData,
     processedImageData |-> u.processedImageData]

\* resetUI: originalImageData = null; the results are not touched.
resetUI(u) == [u EXCEPT !.originalImageData = 0]

\* The stores of a result made of the loaded image (lines 1110-1118 and
\* 1160-1168), followed by updateResults, which sets isCurrentlyInverted to
\* result.wasInverted.
StoreResult(u, by, wasInverted) ==
    [u EXCEPT !.lastProcessingResult = [of |-> u.originalImageData, by |-> by],
              !.baseProcessedImageData = [of |-> u.originalImageData, by |-> by],
              !.processedImageData = [of |-> u.originalImageData, by |-> by],
              !.isCurrentlyInverted = wasInverted]

InitUI ==
    /\ ui = UiIdle
    /\ inv = InvIdle
    /\ lv = LvIdle
    /\ det = DetIdle
    /\ env = EnvIdle
    /\ pi = PiIdle
    /\ op = OpIdle

\* handleImage: a file is chosen and its pixels become originalImageData.
HandleImage ==
    /\ \E i \in 1..NumUiImages :
          ui' = [ui EXCEPT !.originalImageData = i,
                           !.currentImageFaceDetectionRan = FALSE,
                           !.currentImageDetectedType = "null",
                           !.outcome = "none",
                           !.uploadedSince = (ui.pc = "awaiting")]
    /\ UNCHANGED <<inv, lv, det, env, pi, op>>

\* The page's processImage up to its await: without an image it shows an
\* error and returns.
UiProcessStart ==
    /\ ui.pc = "idle"
    /\ ui.attempts < MaxAttempts
    /\ ui' = IF ui.originalImageData = 0
             THEN [ui EXCEPT !.attempts = @ + 1, !.outcome = "noImage"]
             ELSE [ui EXCEPT !.attempts = @ + 1, !.outcome = "none",
                             !.pc = "awaiting", !.before = Artifacts(ui),
                             !.uploadedSince = FALSE]
    /\ UNCHANGED <<inv, lv, det, env, pi, op>>

\* The page's processImage from its await on: the stores of the success
\* path, or the catch block with the fallback processImageWithCustomParams,
\* which stores its result or, when it throws, calls resetUI.
UiProcessSettle ==
    /\ ui.pc = "awaiting"
    /\ \E t \in ImageTypes, dark \in BOOLEAN, fallbackThrows \in BOOLEAN :
          LET u == [ui EXCEPT !.pc = "idle"]
          IN  ui' = IF UiProcessImage(t).pc = "resolved"
                    THEN [StoreResult(u, "processImage", dark) EXCEPT
                             !.currentImageFaceDetectionRan = TRUE,
                             !.currentImageDetectedType =
                                 IF ui.currentImageFaceDetectionRan THEN @ ELSE t,
                             !.outcome = "processed"]
                    ELSE IF fallbackThrows
                    THEN [resetUI(u) EXCEPT !.outcome = "failed"]
                    ELSE [StoreResult(u, "processImageWithCustomParams", FALSE)
                             EXCEPT !.outcome = "fallback"]
    /\ UNCHANGED <<inv, lv, det, env, pi, op>>

NextUI == HandleImage \/ UiProcessStart \/ UiProcessSettle

SpecUI == InitUI /\ [][NextUI]_vars

\* C17 as stated: after an attempt in which ImageProcessor.processImage
\* rejected and the fallback threw, originalImageData, lastProcessingResult,
\* baseProcessedImageData and processedImageData are what they were when the
\* attempt began.
C17_FailedAttemptKeepsArtifacts ==
    (ui.outcome = "failed" /\ ~ui.uploadedSince) => Artifacts(ui) = ui.before

(***************************************************************************)
(* The automatic anchor of processImage                                    *)
(***************************************************************************)

\* The median of calculateOptimalAnchorGray, the histogram being that of the
\* runs img: the first bin at which the pixels counted reach half of all.
medianOfHistogram(img) ==
    FirstBinReaching(img, (HistTotal(img) + 1) \div 2, 0, MaxByte)

\* The inputs of SpecAnchor: a histogram (held as runs of pixels), a mean, a
\* standard deviation, an image type (or none), the material and the variant.
AnchorHistograms ==
    LvImages \cup {<<>>, <<[px |-> <<255, 255, 255, 255>>, n |-> 1]>>}
MeanSamples == {0, 60, 128, 200, 255}
DeviationSamples == {0, 39, 40, 60, 61, 128}
AnchorInputs ==
    [histogram : AnchorHistograms, mean : MeanSamples, stdDev : DeviationSamples,
     imageType : ImageTypes \cup {"undefined"}, isMetal : BOOLEAN,
     variant : {"dark", "neutral"}]

InitAnchor ==
    /\ op \in {[OpIdle EXCEPT !.args = a] : a \in AnchorInputs}
    /\ inv = InvIdle
    /\ lv = LvIdle
    /\ det = DetIdle
    /\ env = EnvIdle
    /\ pi = PiIdle
    /\ ui = UiIdle

\* Step 6 of processImage without an override: calculateOptimalAnchorGray and
\* the adjustment for metal and for the dark variant.
AutoAnchor ==
    /\ op.fn = "none"
    /\ LET a == op.args
           stats == [mean |-> a.mean, median |-> medianOfHistogram(a.histogram)]
       IN  op' = [op EXCEPT
                     !.fn = "anchorGray",
                     !.out = AdjustAutoAnchor(
                                 calculateOptimalAnchorGray(stats, a.stdDev,
                                                            a.imageType),
                                 a.isMetal, a.variant),
                     !.calls = 1]
    /\ UNCHANGED <<inv, lv, det, env, pi, ui>>

NextAnchor == AutoAnchor

SpecAnchor == InitAnchor /\ [][NextAnchor]_vars

\* C12: for every histogram, mean in 0..255 and standard deviation, and every
\* image type or none, the anchor that calculateOptimalAnchorGray and the
\* metal/dark adjustment give is an integer in 0..255.
C12_AutoAnchorInRange ==
    op.fn = "anchorGray" => op.out \in 0..MaxByte

\* The brightest photo on dark metal: the anchor has been raised by 15% and is
\* still below 255.
C12_Witness ==
    /\ op.fn = "anchorGray"
    /\ op.args.mean = 255
    /\ medianOfHistogram(op.args.histogram) = 255
    /\ op.args.imageType = "photo"
    /\ op.args.isMetal
    /\ op.args.variant = "dark"
    /\ op.out > 200

(***************************************************************************)
(* The features detectImageType takes from the pixels                      *)
(***************************************************************************)

\* The least integer not below a / b (a >= 0, b > 0).
CeilDiv(a, b) == (a + b - 1) \div b

\* The least r in lo..hi with r * r >= n: a square root rounded up.
RECURSIVE CeilSqrtIn(_, _, _)
CeilSqrtIn(n, lo, hi) ==
    IF lo >= hi THEN lo
    ELSE LET mid == (lo + hi) \div 2
         IN  IF mid * mid >= n THEN CeilSqrtIn(n, lo, mid)
             ELSE CeilSqrtIn(n, mid + 1, hi)
CeilSqrt(n) == CeilSqrtIn(n, 0, 2048)

\* The sum of f over the finite set S.
RECURSIVE SumOver(_, _)
SumOver(f, S) ==
    IF S = {} THEN 0
    ELSE LET x == CHOOSE y \in S : TRUE
         IN  f[x] + SumOver(f, S \ {x})

\* The gray of the pixel in column x and row y: its R byte.
GrayAt(img, x, y) == img.data[(y * img.width + x) * 4 + 1]

\* smoothed[i] of analyzeHistogramFeatures is WindowSum / (total *
\* WindowCount): the mean of normalized over the bins i-2..i+2 that exist.
WindowBins(i) ==
    (IF i - 2 < 0 THEN 0 ELSE i - 2)..(IF i + 2 > MaxByte THEN MaxByte ELSE i + 2)
WindowSum(histogram, i) == SumOver(histogram, WindowBins(i))
WindowCount(i) == Cardinality(WindowBins(i))

\* smoothed[i] > smoothed[k], smoothed[i] >= smoothed[k],
\* smoothed[i] > smoothed[k] * 1.1 and smoothed[i] > 0.002, each on the window
\* sums ws.
SmoothedGt(ws, i, k) == ws[i] * WindowCount(k) > ws[k] * WindowCount(i)
SmoothedGe(ws, i, k) == ws[i] * WindowCount(k) >= ws[k] * WindowCount(i)
SmoothedStandsOut(ws, i, k) ==
    10 * ws[i] * WindowCount(k) > 11 * ws[k] * WindowCount(i)
SmoothedAboveThreshold(ws, i, total) == 1000 * ws[i] > 2 * total * WindowCount(i)

\* The peaks of the first search, over the bins 2..253.
MainPeaks(ws, total) ==
    {i \in 2..253 :
        /\ SmoothedAboveThreshold(ws, i, total)
        /\ SmoothedGt(ws, i, i - 1)
        /\ SmoothedGt(ws, i, i - 2)
        /\ SmoothedGe(ws, i, i + 1)
        /\ SmoothedGe(ws, i, i + 2)
        /\ (SmoothedStandsOut(ws, i, i - 1) \/ SmoothedStandsOut(ws, i, i - 2))
        /\ (SmoothedStandsOut(ws, i, i + 1) \/ SmoothedStandsOut(ws, i, i + 2))}

\* The bins 1..254 the second search looks at, and the peaks it keeps of
\* them: in rising order, each more than 3 bins after the peak kept last.
SimplePeakCandidates(ws, total) ==
    {i \in 1..254 :
        /\ SmoothedAboveThreshold(ws, i, total)
        /\ SmoothedGt(ws, i, i - 1)
        /\ SmoothedGe(ws, i, i + 1)}
RECURSIVE SpacedPeakCount(_, _)
SpacedPeakCount(cands, last) ==
    IF cands = {} THEN 0
    ELSE LET i == CHOOSE c \in cands : \A d \in cands : c <= d
         IN  IF last < 0 \/ i - last > 3
             THEN 1 + SpacedPeakCount(cands \ {i}, i)
             ELSE SpacedPeakCount(cands \ {i}, last)

\* analyzeHistogramFeatures: peakCount, and bwRatio in thousandths rounded up.
analyzeHistogramFeatures(histogram) ==
    LET total == SumOfBins(histogram, 0, MaxByte)
        ws == [i \in 0..MaxByte |-> WindowSum(histogram, i)]
        main == MainPeaks(ws, total)
        bwPixels == SumOfBins(histogram, 0, 10) + SumOfBins(histogram, 245, MaxByte)
    IN  [peakCount |-> IF main # {} THEN Cardinality(main)
                       ELSE SpacedPeakCount(SimplePeakCandidates(ws, total), -1),
         bwRatio |-> IF total > 0 THEN CeilDiv(1000 * bwPixels, total) ELSE 0]

\* Two cells of a grid touch: side by side, or, with diag, corner to corner.
Touch(a, b, diag) ==
    LET dx == IF a[1] > b[1] THEN a[1] - b[1] ELSE b[1] - a[1]
        dy == IF a[2] > b[2] THEN a[2] - b[2] ELSE b[2] - a[2]
    IN  /\ dx <= 1 /\ dy <= 1 /\ dx + dy > 0
        /\ (diag \/ dx + dy = 1)

\* The region the breadth-first search collects from the cells it has
\* (region, of which front are the newest), among the cells rest of the same
\* label. The searches stop at 1000 cells, more than an image here has.
RECURSIVE RegionFrom(_, _, _, _)
RegionFrom(region, front, rest, diag) ==
    LET new == {n \in rest : \E c \in front : Touch(c, n, diag)}
    IN  IF new = {} THEN region
        ELSE RegionFrom(region \cup new, new, rest \ new, diag)

\* The regions the scan of the cells finds, as a set.
RECURSIVE RegionsOf(_, _, _)
RegionsOf(cells, label, diag) ==
    IF cells = {} THEN {}
    ELSE LET seed == CHOOSE c \in cells : TRUE
             alike == {n \in cells \ {seed} : label[n] = label[seed]}
             region == RegionFrom({seed}, {seed}, alike, diag)
         IN  {region} \cup RegionsOf(cells \ region, label, diag)

\* findColorBlocks: the regions of equal quantized gray of at least 4 cells.
findColorBlocks(quantized, width, height) ==
    LET cells == (0..(width - 1)) \X (0..(height - 1))
    IN  {r \in RegionsOf(cells, quantized, FALSE) : Cardinality(r) >= 4}

\* A sampled pixel has a skin tone.
IsSkin(r, g, b) ==
    \/ /\ r > 60 /\ g > 40 /\ b > 20 /\ r > g /\ r > b
       /\ r - g > 15 /\ r - b > 20 /\ r - b < 120
    \/ /\ r > 150 /\ g > 120 /\ b > 100
       /\ r > g + 10 /\ g > b /\ r - b < 140
    \/ /\ r > 180 /\ g > 120 /\ b > 120
       /\ r - g > 20 /\ g - b < 20

\* analyzeTextureFeatures, the ratios in thousandths rounded up.
analyzeTextureFeatures(img) ==
    LET w == img.width
        h == img.height
        sampled == {p \in 0..(w * h - 1) : p % 4 = 0}
        grayLevels == {img.data[4 * p + 1] \div 8 : p \in sampled}
        qw == w \div 4
        qh == h \div 4
        quantized ==
            [c \in (0..(qw - 1)) \X (0..(qh - 1)) |->
                LET sum == SumOver([d \in (0..3) \X (0..3) |->
                                      GrayAt(img, 4 * c[1] + d[1], 4 * c[2] + d[2])],
                                   (0..3) \X (0..3))
                IN  RoundDiv(sum, 16) \div 32]
        varBlocks == {b \in (0..(w - 4)) \X (0..(h - 4)) : b[1] % 3 = 0 /\ b[2] % 3 = 0}
        vals(b) == [d \in (0..2) \X (0..2) |-> GrayAt(img, b[1] + d[1], b[2] + d[2])]
        lowVariance ==
            {b \in varBlocks :
                LET sum == SumOver(vals(b), (0..2) \X (0..2))
                    sumSq == SumOver([d \in (0..2) \X (0..2) |-> vals(b)[d] * vals(b)[d]],
                                     (0..2) \X (0..2))
                IN  9 * sumSq - sum * sum < 30 * 81}
        skinPixels ==
            {p \in sampled : IsSkin(img.data[4 * p + 1], img.data[4 * p + 2],
                                    img.data[4 * p + 3])}
    IN  [colorBlockCount |-> Cardinality(findColorBlocks(quantized, qw, qh)),
         lowVarianceAreaRatio |->
             IF w * h > 0 THEN CeilDiv(9000 * Cardinality(lowVariance), w * h) ELSE 0,
         skinToneRatio |->
             CeilDiv(1000 * Cardinality(skinPixels), Cardinality(sampled)),
         colorSimplicity |-> CeilDiv(1000 * (32 - Cardinality(grayLevels)), 32)]

\* The square of the Sobel gradient at the inner pixel (x, y).
GradientSquared(img, x, y) ==
    LET gx == (GrayAt(img, x + 1, y - 1) + 2 * GrayAt(img, x + 1, y)
                 + GrayAt(img, x + 1, y + 1))
              - (GrayAt(img, x - 1, y - 1) + 2 * GrayAt(img, x - 1, y)
                   + GrayAt(img, x - 1, y + 1))
        gy == (GrayAt(img, x - 1, y + 1) + 2 * GrayAt(img, x, y + 1)
                 + GrayAt(img, x + 1, y + 1))
              - (GrayAt(img, x - 1, y - 1) + 2 * GrayAt(img, x, y - 1)
                   + GrayAt(img, x + 1, y - 1))
    IN  gx * gx + gy * gy

\* A connected region of edge pixels counts as a long edge.
IsLongEdge(region) ==
    LET size == Cardinality(region)
        xs == {c[1] : c \in region}
        ys == {c[2] : c \in region}
        boxWidth == (CHOOSE a \in xs : \A b \in xs : a >= b)
                      - (CHOOSE a \in xs : \A b \in xs : a <= b) + 1
        boxHeight == (CHOOSE a \in ys : \A b \in ys : a >= b)
                       - (CHOOSE a \in ys : \A b \in ys : a <= b) + 1
    IN  /\ size > 15
        /\ (boxWidth > 20 \/ boxHeight > 20)
        /\ (2 * size < boxWidth * boxHeight \/ size > 30)

\* analyzeEdgeFeatures, the ratios in thousandths rounded up. A gradient is
\* compared with 20 and 50 by its square; in the mean contrast each gradient
\* is rounded up to an integer.
analyzeEdgeFeatures(img) ==
    LET w == img.width
        h == img.height
        inner == (1..(w - 2)) \X (1..(h - 2))
        g2 == [c \in inner |-> GradientSquared(img, c[1], c[2])]
        edges == {c \in inner : g2[c] > 400}
        distinct == {c \in edges : g2[c] > 2500}
        totalContrast == SumOver([c \in edges |-> CeilSqrt(g2[c])], edges)
        long == {r \in RegionsOf(edges, [c \in edges |-> 1], TRUE) : IsLongEdge(r)}
    IN  [distinctEdgeRatio |-> CeilDiv(1000 * Cardinality(distinct), w * h),
         longEdgeRatio |-> CeilDiv(100000 * Cardinality(long), w * h),
         edgeContrast |-> IF edges = {} THEN 0
                          ELSE CeilDiv(totalContrast, Cardinality(edges))]

\* N * N times the variance of the grays (N the number of pixels): the
\* standard deviation of calculateImageStats is its root over N.
VarianceTimesSquare(histogram) ==
    LET n == SumOfBins(histogram, 0, MaxByte)
        sum == SumOfBins([i \in 0..MaxByte |-> i * histogram[i]], 0, MaxByte)
        sumSq == SumOfBins([i \in 0..MaxByte |-> i * i * histogram[i]], 0, MaxByte)
    IN  n * sumSq - sum * sum

\* The features detectImageType computes of imageData before the rules: the
\* image is turned to gray, then the histogram, texture and edge features are
\* taken. stdDev is rounded down.
SceneFeatures(img) ==
    LET grayImage == [img EXCEPT !.data = convertToGrayscale(img.data)]
        histogram == calculateHistogram(grayImage.data)
        n == img.width * img.height
        hist == analyzeHistogramFeatures(histogram)
        texture == analyzeTextureFeatures(grayImage)
        edge == analyzeEdgeFeatures(grayImage)
        stdDevUp == CeilSqrt(CeilDiv(VarianceTimesSquare(histogram), n * n))
    IN  [peakCount |-> hist.peakCount, bwRatio |-> hist.bwRatio,
         lowVarianceAreaRatio |-> texture.lowVarianceAreaRatio,
         colorSimplicity |-> texture.colorSimplicity,
         longEdgeRatio |-> edge.longEdgeRatio,
         colorBlockCount |-> texture.colorBlockCount,
         distinctEdgeRatio |-> edge.distinctEdgeRatio,
         edgeContrast |-> edge.edgeContrast,
         skinToneRatio |-> texture.skinToneRatio,
         stdDev |-> IF stdDevUp * stdDevUp * n * n > VarianceTimesSquare(histogram)
                    THEN stdDevUp - 1 ELSE stdDevUp]

\* Bound of SpecScene: the width and the height of an image.
MaxSide == 12

\* A width by height image of one gray, and a checkerboard of black and white
\* squares of side cell, all opaque.
UniformImage(width, height, gray) ==
    [width |-> width, height |-> height,
     data |-> [k \in 1..(4 * width * height) |->
                  IF ChannelOf(k) = 3 THEN MaxByte ELSE gray]]
Checkerboard(width, height, cell) ==
    [width |-> width, height |-> height,
     data |-> [k \in 1..(4 * width * height) |->
                  LET p == (k - 1) \div 4
                  IN  IF ChannelOf(k) = 3 THEN MaxByte
                      ELSE IF (((p % width) \div cell) + ((p \div width) \div cell)) % 2 = 0
                      THEN 0 ELSE MaxByte]]
IsUniform(img, gray) ==
    /\ img.width >= 1
    /\ \A k \in 1..Len(img.data) : ChannelOf(k) = 3 \/ img.data[k] = gray
IsBlackAndWhite(img) ==
    /\ \A k \in 1..Len(img.data) : ChannelOf(k) = 3 \/ img.data[k] \in {0, MaxByte}
    /\ \E k \in 1..Len(img.data) : ChannelOf(k) < 3 /\ img.data[k] = 0
    /\ \E k \in 1..Len(img.data) : ChannelOf(k) < 3 /\ img.data[k] = MaxByte
SceneImages ==
    {UniformImage(w, h, 128) : w \in 1..MaxSide, h \in 1..MaxSide}
      \cup {Checkerboard(w, h, c) : w \in 2..MaxSide, h \in 2..MaxSide, c \in 1..2}

\* detectImageType is called on the image held in op.img.
InitScene ==
    /\ op \in {[OpIdle EXCEPT !.img = i] : i \in SceneImages}
    /\ det = [DetIdle EXCEPT !.feat = SceneFeatures(op.img)]
    /\ env \in {e \in [faceapi : BOOLEAN, params : BOOLEAN, settles : {TRUE}] :
                   e.params => e.faceapi}
    /\ inv = InvIdle
    /\ lv = LvIdle
    /\ pi = PiIdle
    /\ ui = UiIdle

NextScene == CallDetect \/ LoadSettle \/ DetectSettle

SpecScene == InitScene /\ [][NextScene]_vars

\* A call of detectImageType has completed without the detector finding a face.
DoneWithoutFace ==
    /\ det.pc = "done"
    /\ det.outcome \in {"notConsulted", "notLoaded", "loadFailed", "detectThrew",
                        "noFaces"}

\* C19 as stated: for a uniform image of gray 128 of any width and height,
\* with the detector finding no face or being unavailable, stdDev = 0,
\* bwRatio = 0, no cartoon rule fires and detectImageType returns 'photo'.
C19_UniformGrayIsPhoto ==
    (IsUniform(op.img, 128) /\ DoneWithoutFace) =>
        /\ VarianceTimesSquare(calculateHistogram(op.img.data)) = 0
        /\ det.feat.bwRatio = 0
        /\ det.rule = 0
        /\ det.result = "photo"

\* C20 as stated: for a black and white checkerboard bwRatio is 1,
\* detectImageType returns 'cartoon', and the rule that decides is rule 3.
C20_CheckerboardByRuleThree ==
    (IsBlackAndWhite(op.img) /\ det.pc = "done") =>
        /\ det.feat.bwRatio = 1000
        /\ det.result = "cartoon"
        /\ det.rule = 3

\* C20: for a black and white checkerboard bwRatio is 1 and detectImageType
\* returns 'cartoon'; the smoothed histogram has no peak (peakCount = 0) and
\* the rule that decides is rule 1, the first one, without the detector.
C20_CheckerboardByRuleOne ==
    (IsBlackAndWhite(op.img) /\ det.pc = "done") =>
        /\ det.feat.bwRatio = 1000
        /\ det.feat.peakCount = 0
        /\ det.result = "cartoon"
        /\ det.rule = 1
        /\ ~det.consulted

\* detectImageType has returned 'cartoon' by rule 1 for an 8 by 8
\* checkerboard of squares of one pixel.
C20_Witness ==
    /\ op.img = Checkerboard(8, 8, 1)
    /\ det.pc = "done"
    /\ det.feat.bwRatio = 1000
    /\ det.rule = 1
    /\ det.result = "cartoon"

(***************************************************************************)
(* The anchor of a cartoon image from its own statistics                   *)
(***************************************************************************)

\* The elements of a finite set of integers in rising order.
RECURSIVE AscendingSeq(_)
AscendingSeq(S) ==
    IF S = {} THEN <<>>
    ELSE LET least == CHOOSE a \in S : \A b \in S : a <= b
         IN  <<least>> \o AscendingSeq(S \ {least})

\* The greatest bin count of a histogram.
MaxBin(histogram) ==
    LET counts == {histogram[i] : i \in 0..MaxByte}
    IN  CHOOSE a \in counts : \A b \in counts : a >= b

\* analyzeHistogram: the bins 1..254 whose smoothed value (the window mean of
\* histogram / max) is above 0.01 and above both neighbours; without any,
\* the bins that are above both neighbours.
analyzeHistogram(histogram) ==
    LET ws == [i \in 0..MaxByte |-> WindowSum(histogram, i)]
        max == MaxBin(histogram)
        local == {i \in 1..254 : SmoothedGt(ws, i, i - 1) /\ SmoothedGt(ws, i, i + 1)}
        high == {i \in local : 100 * ws[i] > max * WindowCount(i)}
    IN  AscendingSeq(IF high # {} THEN high ELSE local)

\* The least bin in lo..hi up to which the counts from bin 0 reach half of
\* pixelCount (the running count only grows, so the bin is found by halving).
RECURSIVE FirstBinHalf(_, _, _, _)
FirstBinHalf(histogram, pixelCount, lo, hi) ==
    IF lo >= hi THEN lo
    ELSE LET mid == (lo + hi) \div 2
         IN  IF 2 * SumOfBins(histogram, 0, mid) >= pixelCount
             THEN FirstBinHalf(histogram, pixelCount, lo, mid)
             ELSE FirstBinHalf(histogram, pixelCount, mid + 1, hi)

\* calculateImageStats with the median calculateOptimalAnchorGray takes from
\* the histogram: the first bin at which the running count reaches half the
\* pixels. The mean is sum / pixelCount, a whole number for the images here.
calculateImageStats(data) ==
    LET histogram == calculateHistogram(data)
        pixelCount == SumOfBins(histogram, 0, MaxByte)
        sum == SumOfBins([i \in 0..MaxByte |-> i * histogram[i]], 0, MaxByte)
    IN  [mean |-> IF pixelCount > 0 THEN sum \div pixelCount ELSE 128,
         median |-> FirstBinHalf(histogram, pixelCount, 0, MaxByte),
         peaks |-> analyzeHistogram(histogram)]

\* The images of SpecPeaks: one row of four opaque gray pixels, the grays
\* multiples of four (so that the mean is whole) and four apart in pairs (the
\* window of five bins then peaks between the two grays of a pair).
PeakGrays == {40, 44, 80, 84, 200, 204}
PeakImages ==
    {[width |-> 4, height |-> 1, data |-> Flatten(ps)] :
        ps \in [1..4 -> {<<g, g, g, MaxByte>> : g \in PeakGrays}]}

InitPeaks ==
    /\ op \in {[OpIdle EXCEPT !.img = i] : i \in PeakImages}
    /\ inv = InvIdle
    /\ lv = LvIdle
    /\ det = DetIdle
    /\ env = EnvIdle
    /\ pi = PiIdle
    /\ ui = UiIdle

\* calculateOptimalAnchorGray(calculateImageStats(gray), imageType) as
\* processImage calls it; args keeps the statistics.
StatsAnchor ==
    /\ op.fn = "none"
    /\ \E t \in {"cartoon", "portrait"} :
          LET stats == calculateImageStats(op.img.data)
          IN  op' = [op EXCEPT
                       !.fn = "calculateOptimalAnchorGray",
                       !.args = [stats |-> stats, imageType |-> t],
                       !.out = calculateOptimalAnchorGray(stats, 0, t),
                       !.calls = 1]
    /\ UNCHANGED <<inv, lv, det, env, pi, ui>>

NextPeaks == StatsAnchor

SpecPeaks == InitPeaks /\ [][NextPeaks]_vars

\* C21 as stated: for a cartoon image whose statistics have two peaks or more,
\* the first two more than 50 apart, the anchor is round(base * 0.35) with
\* base = min(round((p0 + p1) / 2), 100).
C21_TwoPeakBranchIsTaken ==
    (/\ op.fn = "calculateOptimalAnchorGray"
     /\ op.args.imageType = "cartoon"
     /\ Len(op.args.stats.peaks) >= 2
     /\ op.args.stats.peaks[2] - op.args.stats.peaks[1] > 50) =>
        LET mid == RoundDiv(op.args.stats.peaks[1] + op.args.stats.peaks[2], 2)
        IN  op.out = RoundDiv((IF mid > 100 THEN 100 ELSE mid) * 35, 100)

(***************************************************************************)
(* The page script with its pixels: requests, dithering and inversion      *)
(***************************************************************************)

\* The parameters a processing result carries, as processImageWithCustomParams
\* takes them: levels.imageType is detectedImageType ("undefined" when the
\* record has none), and thresholdNull says that ditherThreshold is null, which
\* the comparison oldPixel < threshold takes as 0.
PageParams(q, thresholdNull) ==
    [brightness |-> q.brightness, contrast100 |-> q.contrast100,
     anchorGray |-> q.anchorGray, sharpness10 |-> q.sharpness10,
     levels |-> q.levels, dither |-> q.dither, thresholdNull |-> thresholdNull]

\* customParams of the fallback (main.js 1146-1151) under the defaults of
\* processImageWithCustomParams (imageProcessor.js 1130-1143).
FallbackParams(currentAnchorGray) ==
    PageParams([DefaultCustomParams EXCEPT !.anchorGray = currentAnchorGray], FALSE)

\* A slip of the stages of processImageWithCustomParams: dithering is run
\* before sharpening.
customStagesDitherFirst(q) ==
    <<"grayscale", "brightnessContrast", "levels">>
        \o (IF q.dither.ditherEnabled THEN <<"dithering">> ELSE <<>>)
        \o (IF q.sharpness10 > 0 THEN <<"sharpening">> ELSE <<>>)

\* The stages processImageWithCustomParams runs, in the order of its calls.
customStages(q) ==
    <<"grayscale", "brightnessContrast", "levels">>
        \o (IF q.sharpness10 > 0 THEN <<"sharpening">> ELSE <<>>)
        \o (IF q.dither.ditherEnabled THEN <<"dithering">> ELSE <<>>)

\* One stage applied to the bytes data of an image of the size of img.
ApplyStage(stage, img, data, q) ==
    IF stage = "grayscale" THEN convertToGrayscale(data)
    ELSE IF stage = "brightnessContrast"
    THEN applyBrightnessContrast(data, q.brightness, q.contrast100, q.anchorGray)
    ELSE IF stage = "levels" THEN applyLevelsData(data, q.levels)
    ELSE IF stage = "sharpening"
    THEN applySharpening([img EXCEPT !.data = data], q.sharpness10)
    ELSE IF stage = "dithering"
    THEN applyDithering([img EXCEPT !.data = data], q.dither)
    ELSE invertColors(data)

\* The stages applied one after the other, each to the output of the one
\* before it.
RECURSIVE RunStages(_, _, _, _)
RunStages(stages, img, data, q) ==
    IF stages = <<>> THEN data
    ELSE RunStages(Tail(stages), img, ApplyStage(Head(stages), img, data, q), q)

\* The threshold applyDithering hands to an error diffusion, or none: the
\* ordered and the Bayer dithering take no threshold.
NoThreshold == [handed |-> FALSE, isNull |-> FALSE, value |-> 0]
HandedThreshold(q) ==
    IF q.dither.ditherEnabled /\ q.dither.ditherType \notin {"ordered", "bayer"}
    THEN [handed |-> TRUE, isNull |-> q.thresholdNull, value |-> q.dither.ditherThreshold]
    ELSE NoThreshold

\* The record processImageWithCustomParams returns; by and stages say which
\* function made the image and through which stages.
CustomResult(img, q) ==
    [processedImage |-> RunStages(customStages(q), img, img.data, q),
     params |-> q, wasInverted |-> FALSE,
     by |-> "processImageWithCustomParams", stages |-> customStages(q)]

\* Materials.getMaterialParams for the material the selector shows first
\* ("walnut" stands for it) and the two variants of the colour selector.
getMaterialParams(variant) ==
    IF variant = "dark"
    THEN [brightness |-> -15, contrast100 |-> 140, levelInLow |-> 10,
          levelInHigh |-> 230, sharpness |-> 40, ditherThreshold |-> 128]
    ELSE [brightness |-> -5, contrast100 |-> 140, levelInLow |-> 15,
          levelInHigh |-> 235, sharpness |-> 45, ditherThreshold |-> 128]

\* The pixel count, the sum and the sum of squares of the grays (R bytes).
GrayMoments(data) ==
    LET n == Len(data) \div 4
        grays == [p \in 1..n |-> data[4 * p - 3]]
    IN  [n |-> n,
         sum |-> SumOver(grays, 1..n),
         sumSq |-> SumOver([p \in 1..n |-> grays[p] * grays[p]], 1..n)]

\* n * n times the variance of the grays.
ScaledVariance(m) == m.n * m.sumSq - m.sum * m.sum

\* The standard deviation of the grays, rounded up (the images of SpecPage have
\* a whole one).
StdDevOf(data) ==
    LET m == GrayMoments(data)
    IN  IF m.n = 0 THEN 0 ELSE CeilSqrt(CeilDiv(ScaledVariance(m), m.n * m.n))

\* Materials.adjustParamsForImageStats(params, imageStats, 'CO2'): brightness,
\* contrast (hundredths, the factor applied and rounded) and sharpness after
\* the adjustments and the final limits.
adjustParamsForImageStats(params, data) ==
    LET m == GrayMoments(data)
        v == ScaledVariance(m)
        nn == m.n * m.n
        brightness == params.brightness
                        + (IF m.sum < 60 * m.n THEN 10
                           ELSE IF m.sum > 190 * m.n THEN -10 ELSE 0)
        factor == IF v < 900 * nn THEN 115
                  ELSE IF v < 2500 * nn THEN 105
                  ELSE IF v > 4225 * nn THEN 99 ELSE 100
        contrast == RoundDiv(params.contrast100 * factor, 100)
        sharpness == params.sharpness
                       + (IF v < 1600 * nn THEN 5 ELSE IF v > 4900 * nn THEN -3 ELSE 0)
        limit(x, lo, hi) == IF x < lo THEN lo ELSE IF x > hi THEN hi ELSE x
        inLow == limit(params.levelInLow, 0, 254)
    IN  [brightness |-> limit(brightness, -100, 100),
         contrast100 |-> limit(contrast, 10, 300),
         levelInLow |-> inLow,
         levelInHigh |-> IF params.levelInHigh > 255 THEN 255
                         ELSE IF params.levelInHigh < inLow + 1 THEN inLow + 1
                         ELSE params.levelInHigh,
         sharpness |-> limit(sharpness, 0, 100)]

\* The record ImageProcessor.processImage resolves with (lines 1034-1112) for
\* an image of the given type: the pipeline without dithering, the inversion
\* for the dark variant, and finalParams, whose ditherType and ditherThreshold
\* are null.
ProcessImageResult(img, variant, imageType) ==
    LET gray == convertToGrayscale(img.data)
        a == adjustParamsForImageStats(getMaterialParams(variant), gray)
        anchor == AdjustAutoAnchor(
                      calculateOptimalAnchorGray(calculateImageStats(gray),
                                                 StdDevOf(gray), imageType),
                      FALSE, variant)
        q == [brightness |-> a.brightness, contrast100 |-> a.contrast100,
              anchorGray |-> anchor, sharpness10 |-> 10 * a.sharpness,
              levels |-> [inLow |-> a.levelInLow, inHigh |-> a.levelInHigh,
                          outLow |-> 0, outHigh |-> 255, imageType |-> imageType],
              dither |-> [ditherEnabled |-> FALSE, ditherType |-> "null",
                          ditherThreshold |-> 0]]
        stages == customStages(q)
                    \o (IF variant = "dark" THEN <<"inversion">> ELSE <<>>)
    IN  [processedImage |-> RunStages(stages, img, img.data, q),
         params |-> PageParams(q, TRUE), wasInverted |-> (variant = "dark"),
         by |-> "processImage", stages |-> stages]

\* Bound of SpecPage: the gestures of the user (a file chosen, a processing
\* request, a click on the invert, a dither or the optimize button).
MaxGestures == 4

\* The images a user can load: two photographs of two pixels on which no
\* cartoon rule fires, so that detectImageType awaits the face detector; the
\* dither buttons tried are "none", an error diffusion and the Bayer matrix.
PageImages ==
    <<[width |-> 2, height |-> 1,
       data |-> <<100, 100, 100, 255, 160, 160, 160, 255>>],
      [width |-> 2, height |-> 1,
       data |-> <<255, 60, 30, 255, 35, 35, 35, 255>>]>>
PhotoTypes == {"photo", "portrait"}
Variants == {"neutral", "dark"}
Algorithms == {"none", "floydSteinberg", "bayer"}

\* The slider value image.onload sets: calculateOptimalAnchorGray(imageStats)
\* without a type.
InitialAnchor(img) ==
    LET gray == convertToGrayscale(img.data)
    IN  calculateOptimalAnchorGray(calculateImageStats(gray), StdDevOf(gray),
                                   "undefined")
PageAnchors == <<InitialAnchor(PageImages[1]), InitialAnchor(PageImages[2])>>

\* The state of the page in SpecPage. Images are numbered as in PageImages,
\* 0 is null, and <<>> is a null ImageData.
\*     decoding     the image of the chosen file that image.onload will deliver
\*     canvas       the bytes last put on processedCanvas
\*     requests     the calls of processImage awaiting ImageProcessor.processImage
\*     optimizing   the image the optimize handler awaits detectImageType for
\*     timer        the algorithm whose setTimeout callback is due
\*     typeOf       the image currentImageDetectedType was classified on
\*     passed       what the last call of processImage passed as knownImageType
\*     threshold    the threshold the last dither selection handed on
\*     from         the function that made the result a selection started from
\*     resultOf     the request whose result is lastProcessingResult
\*     madeFrom     the image lastProcessingResult was computed from
\*     lastMade     the result the request started last stored
\*     overlapped   a request was started while another one was awaited
\*     shownBefore  processedImageData before the last handler ran
\*     event        the handler that ran last and how it ended
NoPageResult ==
    [processedImage |-> <<>>, params |-> FallbackParams(0), wasInverted |-> FALSE,
     by |-> "none", stages |-> <<>>]
NoPassed == [known |-> FALSE, type |-> "undefined", classifiedOn |-> 0, loaded |-> 0]
PageIdle ==
    [originalImageData |-> 0, decoding |-> 0, variant |-> "neutral",
     slider |-> DefaultAnchorGray,
     lastProcessingResult |-> NoPageResult, baseProcessedImageData |-> <<>>,
     processedImageData |-> <<>>, canvas |-> <<>>, isCurrentlyInverted |-> FALSE,
     currentImageFaceDetectionRan |-> FALSE, currentImageDetectedType |-> "null",
     processButtonDisabled |-> TRUE, loading |-> FALSE,
     requests |-> {}, optimizing |-> 0, timer |-> "idle",
     typeOf |-> 0, passed |-> NoPassed, threshold |-> NoThreshold, from |-> "none",
     resultOf |-> 0, madeFrom |-> 0, lastMade |-> NoPageResult, overlapped |-> FALSE,
     shownBefore |-> <<>>, event |-> "none",
     started |-> 0, gestures |-> 0]

InitPage ==
    /\ ui = PageIdle
    /\ inv = InvIdle
    /\ lv = LvIdle
    /\ det = DetIdle
    /\ env = EnvIdle
    /\ pi = PiIdle
    /\ op = OpIdle

\* handleImage: a file is chosen; the cached type is reset and the file is
\* read and decoded.
ChooseFile ==
    /\ ui.gestures < MaxGestures
    /\ ui.decoding = 0
    /\ \E i \in DOMAIN PageImages :
          ui' = [ui EXCEPT !.currentImageFaceDetectionRan = FALSE,
                           !.currentImageDetectedType = "null",
                           !.typeOf = 0,
                           !.decoding = i,
                           !.gestures = @ + 1,
                           !.shownBefore = ui.processedImageData,
                           !.event = "chooseFile"]
    /\ UNCHANGED <<inv, lv, det, env, pi, op>>

\* originalImage.onload: the pixels become originalImageData, the process
\* button is enabled and the slider is set to the initial anchor.
ImageOnload ==
    /\ ui.decoding # 0
    /\ ui' = [ui EXCEPT !.originalImageData = ui.decoding,
                        !.processButtonDisabled = FALSE,
                        !.slider = PageAnchors[ui.decoding],
                        !.decoding = 0,
                        !.shownBefore = ui.processedImageData,
                        !.event = "onload"]
    /\ UNCHANGED <<inv, lv, det, env, pi, op>>

\* updateResults(result) after the stores of a result: the base image, the
\* shown image, the flag and the canvas.
updateResults(u, result) ==
    [u EXCEPT !.lastProcessingResult = result,
              !.baseProcessedImageData = result.processedImage,
              !.processedImageData = result.processedImage,
              !.isCurrentlyInverted = result.wasInverted,
              !.slider = result.params.anchorGray,
              !.canvas = result.processedImage]

\* resetUI of the page: no image, the button disabled, the slider at its default.
resetPage(u) ==
    [u EXCEPT !.originalImageData = 0, !.processButtonDisabled = TRUE,
              !.loading = FALSE, !.slider = DefaultAnchorGray]

\* The finally block of the page's processImage.
finallyOfProcessImage(u) ==
    [u EXCEPT !.loading = FALSE, !.processButtonDisabled = FALSE]

\* The page's processImage from its await on, for the request r whose image
\* was classified as t: the stores of the success path, or the catch block
\* with the fallback on the image loaded now, which throws without an image
\* or when the host fails; then the finally block.
SettleRequest(u, r, t, hostFails) ==
    LET type == IF r.known = "undefined" THEN t ELSE r.known
        made(v, result, image) ==
            [v EXCEPT !.resultOf = r.id, !.madeFrom = image,
                      !.lastMade = IF r.id = u.started THEN result ELSE @]
        settled ==
            IF UiProcessImage(type).pc = "resolved"
            THEN LET result == ProcessImageResult(PageImages[r.image], r.variant, type)
                     v == IF u.currentImageFaceDetectionRan THEN u
                          ELSE [u EXCEPT !.currentImageFaceDetectionRan = TRUE,
                                         !.currentImageDetectedType = type,
                                         !.typeOf = r.image]
                 IN  [made(updateResults(v, result), result, r.image) EXCEPT
                         !.event = "processImage:done"]
            ELSE IF u.originalImageData = 0 \/ hostFails
            THEN [resetPage(u) EXCEPT !.event = "processImage:failed"]
            ELSE LET result == CustomResult(PageImages[u.originalImageData],
                                            FallbackParams(u.slider))
                 IN  [made(updateResults(u, result), result, u.originalImageData)
                         EXCEPT !.event = "processImage:fallback"]
    IN  finallyOfProcessImage(settled)

\* The page's processImage up to its await, run by the process button or by
\* a change of the colour variant: without an image it shows an error; with
\* a cached type ImageProcessor.processImage does not wait and the call is
\* settled at once.
ProcessImageCall ==
    /\ ui.gestures < MaxGestures
    /\ \E byButton \in BOOLEAN, hostFails \in BOOLEAN :
          /\ byButton => ~ui.processButtonDisabled
          /\ LET u == [ui EXCEPT !.variant = IF byButton THEN @
                                            ELSE IF @ = "dark" THEN "neutral"
                                            ELSE "dark",
                                 !.gestures = @ + 1,
                                 !.shownBefore = ui.processedImageData]
                 known == IF ui.currentImageFaceDetectionRan
                             /\ ui.currentImageDetectedType # "null"
                          THEN ui.currentImageDetectedType ELSE "undefined"
                 r == [id |-> ui.started + 1, image |-> ui.originalImageData,
                       variant |-> u.variant, known |-> known]
                 called == [u EXCEPT
                              !.loading = TRUE,
                              !.processButtonDisabled = TRUE,
                              !.started = @ + 1,
                              !.overlapped = @ \/ ui.requests # {},
                              !.lastMade = NoPageResult,
                              !.passed = [known |-> ui.currentImageFaceDetectionRan,
                                          type |-> ui.currentImageDetectedType,
                                          classifiedOn |-> ui.typeOf,
                                          loaded |-> ui.originalImageData],
                              !.event = "processImage:awaiting"]
             IN  ui' = IF ui.originalImageData = 0
                       THEN [u EXCEPT !.event = "processImage:noImage"]
                       ELSE IF known = "undefined"
                       THEN [called EXCEPT !.requests = @ \cup {r}]
                       ELSE SettleRequest(called, r, known, hostFails)
    /\ UNCHANGED <<inv, lv, det, env, pi, op>>

\* A pending call of processImage resumes after the classification.
ProcessImageResume ==
    /\ \E r \in ui.requests, t \in PhotoTypes, hostFails \in BOOLEAN :
          ui' = SettleRequest([ui EXCEPT !.requests = @ \ {r},
                                         !.shownBefore = ui.processedImageData],
                              r, t, hostFails)
    /\ UNCHANGED <<inv, lv, det, env, pi, op>>

\* A slip of the invert handler: the flag is toggled and the base image is
\* shown unchanged.
imageDataToDrawAsIs(base, inverted) == base

\* The image the invert handler draws: the inverted base image while the
\* flag is set, the base image otherwise.
imageDataToDraw(base, inverted) == IF inverted THEN invertColors(base) ELSE base

\* The click handler of the invert button.
InvertClick ==
    /\ ui.gestures < MaxGestures
    /\ ui.baseProcessedImageData # <<>>
    /\ LET drawn == imageDataToDraw(ui.baseProcessedImageData,
                                    ~ui.isCurrentlyInverted)
       IN  ui' = [ui EXCEPT !.isCurrentlyInverted = ~@,
                            !.processedImageData = drawn,
                            !.canvas = drawn,
                            !.shownBefore = ui.processedImageData,
                            !.gestures = @ + 1,
                            !.event = "invert"]
    /\ UNCHANGED <<inv, lv, det, env, pi, op>>

\* handleAlgorithmSelect up to its setTimeout: nothing without a result.
AlgorithmSelect ==
    /\ ui.gestures < MaxGestures
    /\ ui.timer = "idle"
    /\ ui.lastProcessingResult.by # "none"
    /\ \E algorithmId \in Algorithms :
          ui' = [ui EXCEPT !.loading = TRUE,
                           !.timer = algorithmId,
                           !.shownBefore = ui.processedImageData,
                           !.gestures = @ + 1,
                           !.event = "algorithm:selected"]
    /\ UNCHANGED <<inv, lv, det, env, pi, op>>

\* The parameters the timeout callback derives from the last result.
baseParams(u, algorithmId) ==
    [u.lastProcessingResult.params EXCEPT
        !.anchorGray = u.slider,
        !.dither.ditherEnabled = (algorithmId # "none"),
        !.dither.ditherType = IF algorithmId = "none" THEN @ ELSE algorithmId]

\* The setTimeout callback of handleAlgorithmSelect: the last parameters with
\* the chosen algorithm are run through processImageWithCustomParams on the
\* image loaded now; the result is stored as it is returned.
AlgorithmTimeout ==
    /\ ui.timer # "idle"
    /\ LET q == baseParams(ui, ui.timer)
           u == [ui EXCEPT !.timer = "idle", !.loading = FALSE,
                           !.shownBefore = ui.processedImageData,
                           !.from = ui.lastProcessingResult.by]
       IN  ui' = IF ui.originalImageData = 0
                 THEN [u EXCEPT !.event = "algorithm:failed"]
                 ELSE [updateResults(u, CustomResult(PageImages[ui.originalImageData], q))
                          EXCEPT !.threshold = HandedThreshold(q),
                                 !.resultOf = 0,
                                 !.madeFrom = ui.originalImageData,
                                 !.event = "algorithm:applied"]
    /\ UNCHANGED <<inv, lv, det, env, pi, op>>

\* The click handler of the optimize button up to its await: with a cached
\* type it goes on at once to Materials.getMaterialInfo, which is no function,
\* and ends in its catch block.
OptimizeClick ==
    /\ ui.gestures < MaxGestures
    /\ ui.optimizing = 0
    /\ ui.originalImageData # 0
    /\ LET u == [ui EXCEPT !.gestures = @ + 1,
                           !.shownBefore = ui.processedImageData]
       IN  ui' = IF ui.currentImageFaceDetectionRan
                    /\ ui.currentImageDetectedType # "null"
                 THEN [u EXCEPT !.loading = FALSE, !.event = "optimize:failed"]
                 ELSE [u EXCEPT !.loading = TRUE,
                                !.optimizing = ui.originalImageData,
                                !.event = "optimize:awaiting"]
    /\ UNCHANGED <<inv, lv, det, env, pi, op>>

\* The optimize handler resumes with the type of the image it passed to
\* detectImageType and caches it; Materials.getMaterialInfo then throws.
OptimizeResume ==
    /\ ui.optimizing # 0
    /\ \E t \in PhotoTypes :
          ui' = [ui EXCEPT !.currentImageFaceDetectionRan = TRUE,
                           !.currentImageDetectedType = t,
                           !.typeOf = ui.optimizing,
                           !.optimizing = 0,
                           !.loading = FALSE,
                           !.shownBefore = ui.processedImageData,
                           !.event = "optimize:failed"]
    /\ UNCHANGED <<inv, lv, det, env, pi, op>>

NextPage ==
    \/ ChooseFile
    \/ ImageOnload
    \/ ProcessImageCall
    \/ ProcessImageResume
    \/ InvertClick
    \/ AlgorithmSelect
    \/ AlgorithmTimeout
    \/ OptimizeClick
    \/ OptimizeResume

SpecPage == InitPage /\ [][NextPage]_vars

\* The stages in the order the specification gives them.
StageOrder ==
    <<"grayscale", "brightnessContrast", "levels", "sharpening", "dithering",
      "inversion">>
StageRank(stage) == CHOOSE k \in DOMAIN StageOrder : StageOrder[k] = stage

\* The stages the shown image went through: those of the stored result and
\* the inversion of the invert button while it is on.
ShownStages ==
    ui.lastProcessingResult.stages
        \o (IF ui.isCurrentlyInverted THEN <<"inversion">> ELSE <<>>)

\* C23: the stages of the shown image begin with grayscale, brightness and
\* contrast, levels; they ran in the order grayscale, brightness/contrast,
\* levels, sharpening, dithering, inversion, none before an earlier one of
\* this list; and the shown image is the image these stages make in this
\* order, so that an inversion is applied to the output of all the others.
C23_StagesRunInOrder ==
    ui.lastProcessingResult.by # "none" =>
        /\ SubSeq(ShownStages, 1, 3) = SubSeq(StageOrder, 1, 3)
        /\ \A i, j \in DOMAIN ShownStages :
              i < j => StageRank(ShownStages[i]) < StageRank(ShownStages[j])
        /\ ui.processedImageData =
              RunStages(ShownStages, PageImages[ui.madeFrom],
                        PageImages[ui.madeFrom].data, ui.lastProcessingResult.params)

\* A dithered and sharpened result is shown inverted after a click on the
\* invert button.
C23_Witness ==
    /\ ui.event = "invert"
    /\ ui.isCurrentlyInverted
    /\ ShownStages = StageOrder

\* C24 as stated: whenever the page passes its cached type to
\* ImageProcessor.processImage as knownImageType, the type was classified on
\* the image that is loaded at the call.
C24_KnownTypeIsOfLoadedImage ==
    ui.passed.known => ui.passed.classifiedOn = ui.passed.loaded

C26_FallbackHandsDefault ==
    (ui.event = "algorithm:applied" /\ ui.threshold.handed) =>
        /\ ui.from = "processImageWithCustomParams"
        /\ ui.threshold = [handed |-> TRUE, isNull |-> FALSE,
                           value |-> DefaultCustomParams.dither.ditherThreshold]
        /\ \A t \in PhotoTypes :
              HandedThreshold(
                  baseParams([ui EXCEPT !.lastProcessingResult =
                                 ProcessImageResult(PageImages[ui.originalImageData],
                                                    ui.variant, t)],
                             "floydSteinberg")).isNull

\* The image the stages of processImageWithCustomParams make of the image
\* the stored result was computed from, without any inversion.
PlainImage ==
    RunStages(customStages(ui.lastProcessingResult.params),
              PageImages[ui.madeFrom], PageImages[ui.madeFrom].data,
              ui.lastProcessingResult.params)

\* C27 as stated: after processImage has stored a result and after a dither
\* selection was applied, the processed image is the inverted one and
\* wasInverted is true while the variant is "dark", and the image is not
\* inverted and wasInverted is false for every other variant.
C27_DarkVariantIsInverted ==
    ui.event \in {"processImage:done", "processImage:fallback", "algorithm:applied"} =>
        IF ui.variant = "dark"
        THEN /\ ui.lastProcessingResult.wasInverted
             /\ ui.processedImageData = invertColors(PlainImage)
        ELSE /\ ~ui.lastProcessingResult.wasInverted
             /\ ui.processedImageData = PlainImage

\* C28 as stated: when the last of two overlapping requests has finished by
\* storing a result, the request started last having stored one too,
\* lastProcessingResult and the shown image are those of the request that was
\* started last.
C28_LastStartedRequestWins ==
    (/\ ui.overlapped
     /\ ui.requests = {}
     /\ ui.event \in {"processImage:done", "processImage:fallback"}
     /\ ui.lastMade.by # "none")
        => /\ ui.lastProcessingResult = ui.lastMade
           /\ ui.processedImageData = ui.lastMade.processedImage
           /\ ui.canvas = ui.lastMade.processedImage

\* C30 as stated: the process button is enabled only while an original image
\* is loaded, and after every processing attempt the loading indicator is
\* hidden.
C30_ButtonEnabledOnlyWithImage ==
    /\ ~ui.processButtonDisabled => ui.originalImageData # 0
    /\ ui.event \in {"processImage:done", "processImage:fallback",
                     "processImage:failed"} => ~ui.loading

\* C30, the second half alone: after every processing attempt the loading
\* indicator is hidden.
C30_LoadingHiddenAfterAttempt ==
    ui.event \in {"processImage:done", "processImage:fallback",
                  "processImage:failed"} => ~ui.loading

====
